---------------------------- MODULE Spec2Model ----------------------------
(***************************************************************************)
(* Model of en_cl_fix, the bit-true fixed-point arithmetic package.        *)
(*                                                                         *)
(* The package is a stateless library: the state of the model is the call  *)
(* in flight (its operation and arguments) and what the call returned.     *)
(* Every operation is one action that draws its arguments from bounded     *)
(* sets, computes the result the way the source computes it and records    *)
(* it; Return hands control back to the caller.                            *)
(*                                                                         *)
(* WideFix data are the internal integers of the source (value * 2^F).     *)
(* NarrowFix data are float64 in the source; every float the bounded model *)
(* produces is a dyadic rational far below 2^53, so a float x is carried   *)
(* exactly as the integer x * 2^RealFrac.  The same scale is used for the  *)
(* real numbers the properties talk about.                                 *)
(*                                                                         *)
(* wide_fix.py calls the format derivations by their older names           *)
(* (FixFormat.ForRound, ForAdd, ...); they are modelled by the derivations *)
(* of en_cl_fix_types.py (for_round, for_add, ...).                        *)
(***************************************************************************)
EXTENDS Integers, Sequences, FiniteSets, TLC

VARIABLES pc,    \* "idle": no call in flight; "done": a call has returned
          call,  \* the operation called and its arguments
          ret    \* what the call returned

vars == <<pc, call, ret>>

---------------------------------------------------------------------------
(* Bounds of the model *)

\* I and F of an enumerated format range over -MaxNegIF .. MaxPosIF
MaxNegIF == 2
MaxPosIF == 2
\* enumerated formats are at most MaxWidth bits wide
MaxWidth == 4
\* shift amounts range over -MaxShift .. MaxShift
MaxShift == 2

\* number of fraction bits carried by the model of a real number / a float64
RealFrac == 2 * (MaxNegIF + MaxPosIF) + MaxShift + 4

---------------------------------------------------------------------------
(* Small helpers *)

Max(x, y) == IF x >= y THEN x ELSE y
Min(x, y) == IF x <= y THEN x ELSE y

\* 2.0**n as a real number (scaled by 2^RealFrac)
Pow2R(n) == 2^(RealFrac + n)

\* np.floor(x * 2.0**n) for a real x: an integer
FloorMul(x, n) == x \div 2^(RealFrac - n)

\* the real number k * 2.0**n, k an integer
IntMul(k, n) == k * 2^(RealFrac + n)

---------------------------------------------------------------------------
(* en_cl_fix_types.py: FixRound, FixSaturate, FixFormat *)

FixRound == {"Trunc_s", "NonSymPos_s", "NonSymNeg_s", "SymInf_s",
             "SymZero_s", "ConvEven_s", "ConvOdd_s"}

FixSaturate == {"None_s", "Warn_s", "Sat_s", "SatWarn_s"}

\* FixFormat(S, I, F) once the constructor's assertions have passed
FixFormat(S, I, F) == [S |-> S, I |-> I, F |-> F]

\* the constructor's assertions
\* a constructor that also refuses the unsigned formats without bits
FixFormat_init_no_null(S, I, F) == (S = 0 \/ S = 1) /\ I + F >= 1 - S

FixFormat_init(S, I, F) == (S = 0 \/ S = 1) /\ I + F >= 0

width(fmt) == fmt.S + fmt.I + fmt.F

\* for_add without the growth of the positive extreme
for_add_no_rmax_growth(a_fmt, b_fmt) ==
    FixFormat(Max(a_fmt.S, b_fmt.S),
              Max(a_fmt.I, b_fmt.I) + (IF a_fmt.S = 1 /\ b_fmt.S = 1 THEN 1 ELSE 0),
              Max(a_fmt.F, b_fmt.F))

\* for_add with one bit of growth whatever the operands
for_add_always_growth(a_fmt, b_fmt) ==
    FixFormat(Max(a_fmt.S, b_fmt.S), Max(a_fmt.I, b_fmt.I) + 1, Max(a_fmt.F, b_fmt.F))

for_add(a_fmt, b_fmt) ==
    LET rmax_growth == IF Min(a_fmt.I, b_fmt.I) + Min(a_fmt.F, b_fmt.F) > 0 THEN 1 ELSE 0
        rmin_growth == IF a_fmt.S = 1 /\ b_fmt.S = 1 THEN 1 ELSE 0
    IN  FixFormat(Max(a_fmt.S, b_fmt.S),
                  Max(a_fmt.I, b_fmt.I) + Max(rmin_growth, rmax_growth),
                  Max(a_fmt.F, b_fmt.F))

\* for_sub that lets only a signed b grow the integer bits
for_sub_b_growth_only(a_fmt, b_fmt) ==
    FixFormat(1, Max(a_fmt.I, b_fmt.I + b_fmt.S), Max(a_fmt.F, b_fmt.F))

for_sub(a_fmt, b_fmt) ==
    LET rmaxI == IF b_fmt.S = 0
                 THEN a_fmt.I
                 ELSE Max(a_fmt.I, b_fmt.I)
                      + (IF Min(a_fmt.I, b_fmt.I) >= -a_fmt.F THEN b_fmt.S ELSE 0)
        rminI == Max(a_fmt.I, b_fmt.I)
                  + (IF Min(a_fmt.I, b_fmt.I) > -b_fmt.F THEN a_fmt.S ELSE 0)
        F     == Max(a_fmt.F, b_fmt.F)
    IN  IF a_fmt.S = 0
        THEN IF width(b_fmt) = 1 /\ b_fmt.S = 1
             THEN FixFormat(0, rmaxI, F)
             ELSE IF b_fmt.I = -b_fmt.F + 1
                  THEN FixFormat(1, Max(rmaxI, -b_fmt.F), F)
                  ELSE FixFormat(1, Max(rmaxI, b_fmt.I), F)
        ELSE FixFormat(1, Max(rmaxI, rminI), F)

union(a_fmt, b_fmt) ==
    FixFormat(Max(a_fmt.S, b_fmt.S), Max(a_fmt.I, b_fmt.I), Max(a_fmt.F, b_fmt.F))

for_addsub(a_fmt, b_fmt) == union(for_add(a_fmt, b_fmt), for_sub(a_fmt, b_fmt))

for_neg(a_fmt) ==
    IF a_fmt.S = 0 /\ width(a_fmt) = 1
    THEN FixFormat(1, a_fmt.I + a_fmt.S - 1, a_fmt.F)
    ELSE FixFormat(1, a_fmt.I + a_fmt.S, a_fmt.F)

\* for_mult without the extra integer bit of signed * signed
for_mult_no_signed_growth(a_fmt, b_fmt) ==
    FixFormat(Max(a_fmt.S, b_fmt.S), a_fmt.I + b_fmt.I, a_fmt.F + b_fmt.F)

for_mult(a_fmt, b_fmt) ==
    LET rmaxI == IF a_fmt.S = 1 /\ b_fmt.S = 1
                 THEN a_fmt.I + b_fmt.I + 1
                 ELSE IF a_fmt.I + a_fmt.F <= 1 \/ b_fmt.I + b_fmt.F <= 1
                      THEN a_fmt.I + b_fmt.I - 1
                      ELSE a_fmt.I + b_fmt.I
        I     == IF a_fmt.S = 0 /\ b_fmt.S = 1
                 THEN Max(rmaxI, for_neg(a_fmt).I + b_fmt.I)
                 ELSE IF a_fmt.S = 1 /\ b_fmt.S = 0
                      THEN Max(rmaxI, a_fmt.I + for_neg(b_fmt).I)
                      ELSE rmaxI
        S     == IF width(a_fmt) = 1 /\ a_fmt.S = 1 /\ width(b_fmt) = 1 /\ b_fmt.S = 1
                 THEN 0
                 ELSE Max(a_fmt.S, b_fmt.S)
    IN  FixFormat(S, I, a_fmt.F + b_fmt.F)

for_abs(a_fmt) == union(a_fmt, for_neg(a_fmt))

for_shift(a_fmt, minShift, maxShift) ==
    FixFormat(a_fmt.S, a_fmt.I + maxShift, a_fmt.F - minShift)

\* for_round that never grows the integer bits
for_round_no_growth(a_fmt, rFracBits, rnd) ==
    LET I == IF a_fmt.S + a_fmt.I + rFracBits < 1 THEN -a_fmt.S - rFracBits + 1 ELSE a_fmt.I
    IN  FixFormat(a_fmt.S, I, rFracBits)

\* for_round without the step that forces the result to be one bit wide
for_round_unforced(a_fmt, rFracBits, rnd) ==
    LET I0 == IF rFracBits >= a_fmt.F
              THEN a_fmt.I
              ELSE IF rnd = "Trunc_s" THEN a_fmt.I ELSE a_fmt.I + 1
    IN  FixFormat(a_fmt.S, I0, rFracBits)

for_round(a_fmt, rFracBits, rnd) ==
    LET I0 == IF rFracBits >= a_fmt.F
              THEN a_fmt.I
              ELSE IF rnd = "Trunc_s" THEN a_fmt.I ELSE a_fmt.I + 1
        I  == IF a_fmt.S + I0 + rFracBits < 1 THEN -a_fmt.S - rFracBits + 1 ELSE I0
    IN  FixFormat(a_fmt.S, I, rFracBits)

---------------------------------------------------------------------------
(* wide_fix.py: WideFix, on the internal integer data *)

MaxValue(fmt) == 2^(fmt.I + fmt.F) - 1

MinValue(fmt) == IF fmt.S = 1 THEN -(2^(fmt.I + fmt.F)) ELSE 0

\* the real number a WideFix datum stands for: data / 2.0**F
to_real(data, fmt) == IntMul(data, -fmt.F)

\* WideFix.round with the offsets of the two symmetric modes exchanged
WideFix_round_sym_swapped(data, fmt, r_fmt, rnd) ==
    LET shift  == fmt.F - r_fmt.F
        half   == 2^(shift - 1)
        offset == CASE rnd = "Trunc_s"     -> 0
                    [] rnd = "NonSymPos_s" -> half
                    [] rnd = "NonSymNeg_s" -> half - 1
                    [] rnd = "SymInf_s"    -> half - (IF data >= 0 THEN 1 ELSE 0)
                    [] rnd = "SymZero_s"   -> half - (IF data < 0 THEN 1 ELSE 0)
                    [] rnd = "ConvEven_s"  -> half - (((data \div 2^shift) + 1) % 2)
                    [] rnd = "ConvOdd_s"   -> half - ((data \div 2^shift) % 2)
    IN  IF r_fmt.F < fmt.F
        THEN (data + offset) \div 2^shift
        ELSE IF r_fmt.F > fmt.F THEN data * 2^(r_fmt.F - fmt.F) ELSE data

\* WideFix.round with the parity tests of the two convergent modes exchanged
WideFix_round_parity_swapped(data, fmt, r_fmt, rnd) ==
    LET shift  == fmt.F - r_fmt.F
        half   == 2^(shift - 1)
        offset == CASE rnd = "Trunc_s"     -> 0
                    [] rnd = "NonSymPos_s" -> half
                    [] rnd = "NonSymNeg_s" -> half - 1
                    [] rnd = "SymInf_s"    -> half - (IF data < 0 THEN 1 ELSE 0)
                    [] rnd = "SymZero_s"   -> half - (IF data >= 0 THEN 1 ELSE 0)
                    [] rnd = "ConvEven_s"  -> half - ((data \div 2^shift) % 2)
                    [] rnd = "ConvOdd_s"   -> half - (((data \div 2^shift) + 1) % 2)
    IN  IF r_fmt.F < fmt.F
        THEN (data + offset) \div 2^shift
        ELSE IF r_fmt.F > fmt.F THEN data * 2^(r_fmt.F - fmt.F) ELSE data

\* WideFix.round(r_fmt, rnd) of the data of a WideFix of format fmt; the caller
\* passes r_fmt = for_round(fmt, r_fmt.F, rnd), which the method asserts.
\* val >> n of the source is the floor division by 2^n.
WideFix_round(data, fmt, r_fmt, rnd) ==
    LET shift   == fmt.F - r_fmt.F
        half    == 2^(shift - 1)
        trunc_a == data \div 2^shift
        offset  == CASE rnd = "Trunc_s"     -> 0
                     [] rnd = "NonSymPos_s" -> half
                     [] rnd = "NonSymNeg_s" -> half - 1
                     [] rnd = "SymInf_s"    -> half - (IF data < 0 THEN 1 ELSE 0)
                     [] rnd = "SymZero_s"   -> half - (IF data >= 0 THEN 1 ELSE 0)
                     [] rnd = "ConvEven_s"  -> half - ((trunc_a + 1) % 2)
                     [] rnd = "ConvOdd_s"   -> half - (trunc_a % 2)
    IN  IF r_fmt.F < fmt.F
        THEN (data + offset) \div 2^shift
        ELSE IF r_fmt.F > fmt.F THEN data * 2^(r_fmt.F - fmt.F) ELSE data

\* WideFix.saturate whose signed wrap is a plain modulus
WideFix_saturate_plain_modulus(data, r_fmt, sat) ==
    LET satSpan == 2^(r_fmt.I + r_fmt.F)
    IN  IF sat \in {"None_s", "Warn_s"}
        THEN IF r_fmt.S = 1 THEN data % (2 * satSpan) ELSE data % satSpan
        ELSE Max(MinValue(r_fmt), Min(MaxValue(r_fmt), data))

\* WideFix.saturate that clamps to the span instead of the maximum value
WideFix_saturate_clamp_to_span(data, r_fmt, sat) ==
    LET satSpan == 2^(r_fmt.I + r_fmt.F)
    IN  IF sat \in {"None_s", "Warn_s"}
        THEN IF r_fmt.S = 1 THEN ((data + satSpan) % (2 * satSpan)) - satSpan
                            ELSE data % satSpan
        ELSE LET hi == IF data > MaxValue(r_fmt) THEN satSpan ELSE data
             IN  IF hi < MinValue(r_fmt) THEN MinValue(r_fmt) ELSE hi

\* WideFix.saturate(r_fmt, sat) of the data of a WideFix
\* WideFix.saturate that clamps under the saturating modes and leaves the
\* data as they are under the others
WideFix_saturate_clamp_only(data, r_fmt, sat) ==
    IF sat \in {"None_s", "Warn_s"}
    THEN data
    ELSE LET hi == IF data > MaxValue(r_fmt) THEN MaxValue(r_fmt) ELSE data
         IN  IF hi < MinValue(r_fmt) THEN MinValue(r_fmt) ELSE hi

WideFix_saturate(data, r_fmt, sat) ==
    LET satSpan == 2^(r_fmt.I + r_fmt.F)
    IN  IF sat \in {"None_s", "Warn_s"}
        THEN IF r_fmt.S = 1 THEN ((data + satSpan) % (2 * satSpan)) - satSpan
                            ELSE data % satSpan
        ELSE LET hi == IF data > MaxValue(r_fmt) THEN MaxValue(r_fmt) ELSE data
             IN  IF hi < MinValue(r_fmt) THEN MinValue(r_fmt) ELSE hi

\* whether WideFix.saturate issues the saturation warning
WideFix_saturate_warns(data, r_fmt, sat) ==
    /\ sat \in {"Warn_s", "SatWarn_s"}
    /\ (data > MaxValue(r_fmt) \/ data < MinValue(r_fmt))

\* WideFix.resize(r_fmt, rnd, sat) of the data of a WideFix of format fmt
WideFix_resize(data, fmt, r_fmt, rnd, sat) ==
    LET roundedFmt == for_round(fmt, r_fmt.F, rnd)
        rounded    == WideFix_round(data, fmt, roundedFmt, rnd)
    IN  WideFix_saturate(rounded, r_fmt, sat)

\* an omitted result format (r_fmt = None); a given one is <<r_fmt>>
None == <<>>

\* r_fmt, or mid_fmt "if r_fmt is None"
OrDefault(r_fmt, mid_fmt) == IF r_fmt = None THEN mid_fmt ELSE r_fmt[1]

\* WideFix.__init__(data, fmt): data is a Python int or an object array of
\* ints; any other object, a WideFix included, has no dtype to assert on
WideFix_init(data_type) == IF data_type \in {"int", "ndarray"} THEN "ok" ELSE "AttributeError"

\* WideFix.neg(r_fmt, rnd, sat)
WideFix_neg(data, fmt, r_fmt, rnd, sat) ==
    LET mid_fmt == for_neg(fmt)
    IN  WideFix_resize(-data, mid_fmt, OrDefault(r_fmt, mid_fmt), rnd, sat)

\* WideFix.abs that negates within the format of the operand, without the
\* bit that for_abs adds
WideFix_abs_same_width(data, fmt, r_fmt, rnd, sat) ==
    LET mid_fmt  == for_abs(fmt)
        neg      == WideFix_neg(data, fmt, <<fmt>>, "Trunc_s", "None_s")
        data_abs == IF data < 0 THEN neg ELSE data
    IN  WideFix_resize(data_abs, mid_fmt, OrDefault(r_fmt, mid_fmt), rnd, sat)

\* WideFix.abs(r_fmt, rnd, sat)
WideFix_abs(data, fmt, r_fmt, rnd, sat) ==
    LET mid_fmt  == for_abs(fmt)
        neg      == WideFix_neg(data, fmt, <<mid_fmt>>, "Trunc_s", "None_s")
        pos      == WideFix_resize(data, fmt, mid_fmt, "Trunc_s", "None_s")
        data_abs == IF data < 0 THEN neg ELSE pos
    IN  WideFix_resize(data_abs, mid_fmt, OrDefault(r_fmt, mid_fmt), rnd, sat)

\* WideFix.add that adds the data as they are stored, binary points not aligned
WideFix_add_as_stored(a, a_fmt, b, b_fmt, r_fmt, rnd, sat) ==
    LET mid_fmt == for_add(a_fmt, b_fmt)
    IN  WideFix_resize(a + b, mid_fmt, OrDefault(r_fmt, mid_fmt), rnd, sat)

\* WideFix.add(b, r_fmt, rnd, sat)
WideFix_add(a, a_fmt, b, b_fmt, r_fmt, rnd, sat) ==
    LET mid_fmt == for_add(a_fmt, b_fmt)
        a_round == WideFix_round(a, a_fmt, for_round(a_fmt, mid_fmt.F, "Trunc_s"), "Trunc_s")
        b_round == WideFix_round(b, b_fmt, for_round(b_fmt, mid_fmt.F, "Trunc_s"), "Trunc_s")
    IN  WideFix_resize(a_round + b_round, mid_fmt, OrDefault(r_fmt, mid_fmt), rnd, sat)

\* WideFix.sub(b, r_fmt, rnd, sat)
WideFix_sub(a, a_fmt, b, b_fmt, r_fmt, rnd, sat) ==
    LET mid_fmt == for_sub(a_fmt, b_fmt)
        a_round == WideFix_round(a, a_fmt, for_round(a_fmt, mid_fmt.F, "Trunc_s"), "Trunc_s")
        b_round == WideFix_round(b, b_fmt, for_round(b_fmt, mid_fmt.F, "Trunc_s"), "Trunc_s")
    IN  WideFix_resize(a_round - b_round, mid_fmt, OrDefault(r_fmt, mid_fmt), rnd, sat)

\* WideFix.addsub(b, add, r_fmt, rnd, sat): the body of the method is its
\* docstring and comments, so the call returns None
WideFix_addsub(a, a_fmt, b, b_fmt, add, r_fmt, rnd, sat) == None

\* WideFix.mult(b, r_fmt, rnd, sat)
WideFix_mult(a, a_fmt, b, b_fmt, r_fmt, rnd, sat) ==
    LET mid_fmt == for_mult(a_fmt, b_fmt)
    IN  WideFix_resize(a * b, mid_fmt, OrDefault(r_fmt, mid_fmt), rnd, sat)

\* WideFix.shift(shift, r_fmt, rnd, sat) with a scalar shift: the data are
\* wrapped in a WideFix mid of format mid_fmt, and mid itself, not its data,
\* is then given to the WideFix constructor
WideFix_shift_status(shift) == WideFix_init("WideFix")

\* the value WideFix.shift resizes when the constructor accepts mid
WideFix_shift(data, fmt, shift, r_fmt, rnd, sat) ==
    LET mid_fmt == for_shift(fmt, shift, shift)
    IN  WideFix_resize(data, mid_fmt, OrDefault(r_fmt, mid_fmt), rnd, sat)

\* WideFix.from_narrowfix: the integer data of a float of format fmt
from_narrowfix(data, fmt) == FloorMul(data, fmt.F)

\* AlignBinaryPoints that returns the operands as they are stored
WideFix_AlignBinaryPoints_as_stored(a, a_fmt, b, b_fmt) == <<a, b>>

\* WideFix.AlignBinaryPoints([a, b]): the data of both, resized to the larger
\* number of fraction bits
WideFix_AlignBinaryPoints(a, a_fmt, b, b_fmt) ==
    LET Fmax == Max(a_fmt.F, b_fmt.F)
    IN  <<WideFix_resize(a, a_fmt, FixFormat(a_fmt.S, a_fmt.I, Fmax), "Trunc_s", "None_s"),
          WideFix_resize(b, b_fmt, FixFormat(b_fmt.S, b_fmt.I, Fmax), "Trunc_s", "None_s")>>

\* the comparison operators of WideFix
WideFix_eq(a, a_fmt, b, b_fmt) ==
    LET v == WideFix_AlignBinaryPoints(a, a_fmt, b, b_fmt) IN v[1] = v[2]

WideFix_ne(a, a_fmt, b, b_fmt) ==
    LET v == WideFix_AlignBinaryPoints(a, a_fmt, b, b_fmt) IN v[1] # v[2]

WideFix_lt(a, a_fmt, b, b_fmt) ==
    LET v == WideFix_AlignBinaryPoints(a, a_fmt, b, b_fmt) IN v[1] < v[2]

WideFix_le(a, a_fmt, b, b_fmt) ==
    LET v == WideFix_AlignBinaryPoints(a, a_fmt, b, b_fmt) IN v[1] <= v[2]

WideFix_gt(a, a_fmt, b, b_fmt) ==
    LET v == WideFix_AlignBinaryPoints(a, a_fmt, b, b_fmt) IN v[1] > v[2]

WideFix_ge(a, a_fmt, b, b_fmt) ==
    LET v == WideFix_AlignBinaryPoints(a, a_fmt, b, b_fmt) IN v[1] >= v[2]

---------------------------------------------------------------------------
(* narrow_fix.py: NarrowFix, on float data *)

\* NarrowFix.MAX_WIDTH
MAX_WIDTH == 53

max_value(fmt) == Pow2R(fmt.I) - Pow2R(-fmt.F)

min_value(fmt) == IF fmt.S = 1 THEN -Pow2R(fmt.I) ELSE 0

\* NarrowFix.from_integer of an integer within the range of a_fmt
from_integer(a, a_fmt) == IntMul(a, -a_fmt.F)

\* NarrowFix.round that adds the rounding offset also when the fraction
\* bits are not reduced
NarrowFix_round_offset_always(data, fmt, r_fmt, rnd) ==
    LET half    == Pow2R(-r_fmt.F - 1)
        lsb     == Pow2R(-fmt.F)
        floor_r == FloorMul(data, r_fmt.F)
        rounded == CASE rnd = "Trunc_s"     -> data
                     [] rnd = "NonSymPos_s" -> data + half
                     [] rnd = "NonSymNeg_s" -> data + half - lsb
                     [] rnd = "SymInf_s"    -> data + half - lsb * (IF data < 0 THEN 1 ELSE 0)
                     [] rnd = "SymZero_s"   -> data + half - lsb * (IF data >= 0 THEN 1 ELSE 0)
                     [] rnd = "ConvEven_s"  -> data + half - lsb * ((floor_r + 1) % 2)
                     [] rnd = "ConvOdd_s"   -> data + half - lsb * (floor_r % 2)
    IN  IntMul(FloorMul(rounded, r_fmt.F), -r_fmt.F)

\* NarrowFix.round(r_fmt, rnd) of the data of a NarrowFix of format fmt
NarrowFix_round(data, fmt, r_fmt, rnd) ==
    LET half    == Pow2R(-r_fmt.F - 1)
        lsb     == Pow2R(-fmt.F)
        floor_r == FloorMul(data, r_fmt.F)
        rounded == CASE rnd = "Trunc_s"     -> data
                     [] rnd = "NonSymPos_s" -> data + half
                     [] rnd = "NonSymNeg_s" -> data + half - lsb
                     [] rnd = "SymInf_s"    -> data + half - lsb * (IF data < 0 THEN 1 ELSE 0)
                     [] rnd = "SymZero_s"   -> data + half - lsb * (IF data >= 0 THEN 1 ELSE 0)
                     [] rnd = "ConvEven_s"  -> data + half - lsb * ((floor_r + 1) % 2)
                     [] rnd = "ConvOdd_s"   -> data + half - lsb * (floor_r % 2)
        offset  == IF r_fmt.F < fmt.F THEN rounded ELSE data
    IN  IntMul(FloorMul(offset, r_fmt.F), -r_fmt.F)

\* NarrowFix.saturate(r_fmt, sat) of the data of a NarrowFix of format fmt,
\* with r_fmt.F = fmt.F (asserted by the method)
NarrowFix_saturate(data, fmt, r_fmt, sat) ==
    LET fmt_max    == max_value(r_fmt)
        fmt_min    == min_value(r_fmt)
        offset_fmt == IF r_fmt.I >= 0 THEN FixFormat(0, r_fmt.I + 1, 0)
                                      ELSE FixFormat(0, r_fmt.I + 1, -r_fmt.I)
        convert_to_wide == r_fmt.S = 1 /\ width(for_add(fmt, offset_fmt)) > MAX_WIDTH
        wide_data  == FloorMul(data, r_fmt.F)
        span       == 2^(r_fmt.I + r_fmt.F)
        wide_sat   == IF r_fmt.S = 1 THEN ((wide_data + span) % (2 * span)) - span
                                     ELSE wide_data % span
    IN  IF sat \in {"None_s", "Warn_s"}
        THEN IF convert_to_wide
             THEN IntMul(wide_sat, -r_fmt.F)
             ELSE IF r_fmt.S = 1
                  THEN ((data + Pow2R(r_fmt.I)) % Pow2R(r_fmt.I + 1)) - Pow2R(r_fmt.I)
                  ELSE data % Pow2R(r_fmt.I)
        ELSE LET hi == IF data > fmt_max THEN fmt_max ELSE data
             IN  IF data < fmt_min THEN fmt_min ELSE hi

\* whether NarrowFix.saturate issues the saturation warning
NarrowFix_saturate_warns(data, r_fmt, sat) ==
    /\ sat \in {"Warn_s", "SatWarn_s"}
    /\ (data > max_value(r_fmt) \/ data < min_value(r_fmt))


\* NarrowFix.resize(r_fmt, rnd, sat)
NarrowFix_resize(data, fmt, r_fmt, rnd, sat) ==
    LET rounded_fmt == for_round(fmt, r_fmt.F, rnd)
        rounded     == NarrowFix_round(data, fmt, rounded_fmt, rnd)
    IN  NarrowFix_saturate(rounded, rounded_fmt, r_fmt, sat)

\* NarrowFix.neg(r_fmt, rnd, sat)
NarrowFix_neg(data, fmt, r_fmt, rnd, sat) ==
    LET mid_fmt == for_neg(fmt)
    IN  NarrowFix_resize(-data, mid_fmt, OrDefault(r_fmt, mid_fmt), rnd, sat)

\* NarrowFix.abs(r_fmt, rnd, sat)
NarrowFix_abs(data, fmt, r_fmt, rnd, sat) ==
    LET mid_fmt  == for_abs(fmt)
        neg      == NarrowFix_neg(data, fmt, <<mid_fmt>>, "Trunc_s", "None_s")
        pos      == NarrowFix_resize(data, fmt, mid_fmt, "Trunc_s", "None_s")
        data_abs == IF data < 0 THEN neg ELSE pos
    IN  NarrowFix_resize(data_abs, mid_fmt, OrDefault(r_fmt, mid_fmt), rnd, sat)

\* NarrowFix.add(b, r_fmt, rnd, sat)
NarrowFix_add(a, a_fmt, b, b_fmt, r_fmt, rnd, sat) ==
    LET mid_fmt == for_add(a_fmt, b_fmt)
    IN  NarrowFix_resize(a + b, mid_fmt, OrDefault(r_fmt, mid_fmt), rnd, sat)

\* NarrowFix.sub(b, r_fmt, rnd, sat)
NarrowFix_sub(a, a_fmt, b, b_fmt, r_fmt, rnd, sat) ==
    LET mid_fmt == for_sub(a_fmt, b_fmt)
    IN  NarrowFix_resize(a - b, mid_fmt, OrDefault(r_fmt, mid_fmt), rnd, sat)

\* the float product a * b of a of format a_fmt and b of format b_fmt: the
\* product of the two integers a * 2^a_fmt.F and b * 2^b_fmt.F, scaled back
FloatMul(a, a_fmt, b, b_fmt) ==
    IntMul(FloorMul(a, a_fmt.F) * FloorMul(b, b_fmt.F), -(a_fmt.F + b_fmt.F))

\* NarrowFix.mult(b, r_fmt, rnd, sat)
NarrowFix_mult(a, a_fmt, b, b_fmt, r_fmt, rnd, sat) ==
    LET mid_fmt == for_mult(a_fmt, b_fmt)
    IN  NarrowFix_resize(FloatMul(a, a_fmt, b, b_fmt), mid_fmt, OrDefault(r_fmt, mid_fmt), rnd, sat)

\* NarrowFix.addsub(b, add, r_fmt, rnd, sat) for one element
NarrowFix_addsub(a, a_fmt, b, b_fmt, add, r_fmt, rnd, sat) ==
    LET mid_fmt == for_addsub(a_fmt, b_fmt)
        r       == OrDefault(r_fmt, mid_fmt)
        radd    == NarrowFix_add(a, a_fmt, b, b_fmt, <<r>>, rnd, sat)
        rsub    == NarrowFix_sub(a, a_fmt, b, b_fmt, <<r>>, rnd, sat)
    IN  IF add THEN radd ELSE rsub

\* data * 2.0 ** shift
FloatShift(data, shift) == IF shift >= 0 THEN data * 2^shift ELSE data \div 2^(-shift)

\* NarrowFix.shift(shift, r_fmt, rnd, sat) with a scalar shift
NarrowFix_shift(data, fmt, shift, r_fmt, rnd, sat) ==
    LET mid_fmt == for_shift(fmt, shift, shift)
    IN  NarrowFix_resize(FloatShift(data, shift), mid_fmt, OrDefault(r_fmt, mid_fmt), rnd, sat)

\* NarrowFix.in_range(r_fmt, rnd) for one datum of a NarrowFix of format fmt
NarrowFix_in_range(data, fmt, r_fmt, rnd) ==
    LET rounded_fmt == for_round(fmt, r_fmt.F, rnd)
        rounded     == NarrowFix_round(data, fmt, rounded_fmt, rnd)
        lo          == IF rounded < min_value(r_fmt) THEN FALSE ELSE TRUE
        hi          == IF rounded > max_value(r_fmt) THEN FALSE ELSE TRUE
    IN  lo /\ hi

\* np.round of a float: the nearest integer, a tie going to the even one
np_round(x) ==
    LET one   == Pow2R(0)
        below == x \div one
        rest  == x % one
    IN  IF 2 * rest < one THEN below
        ELSE IF 2 * rest > one THEN below + 1
        ELSE IF below % 2 = 0 THEN below ELSE below + 1

\* NarrowFix.to_integer for one datum of a NarrowFix of format fmt
NarrowFix_to_integer(data, fmt) == np_round(FloatShift(data, fmt.F))

---------------------------------------------------------------------------
(* en_cl_fix.py: the functional interface, on float data for narrow formats
   and on integer data for wide ones *)

cl_fix_is_wide(fmt) == width(fmt) > MAX_WIDTH

cl_fix_round(a, a_fmt, r_fmt, rnd) ==
    LET a_wide == cl_fix_is_wide(a_fmt)
        r_wide == cl_fix_is_wide(r_fmt)
        wide_a == IF a_wide THEN a ELSE from_narrowfix(a, a_fmt)
        r      == WideFix_round(wide_a, a_fmt, r_fmt, rnd)
    IN  IF a_wide \/ r_wide
        THEN IF r_wide THEN r ELSE to_real(r, r_fmt)
        ELSE NarrowFix_round(a, a_fmt, r_fmt, rnd)

cl_fix_saturate(a, a_fmt, r_fmt, sat) ==
    LET a_wide == cl_fix_is_wide(a_fmt)
        r_wide == cl_fix_is_wide(r_fmt)
        wide_a == IF a_wide THEN a ELSE from_narrowfix(a, a_fmt)
        r      == WideFix_saturate(wide_a, r_fmt, sat)
    IN  IF a_wide \/ r_wide
        THEN IF r_wide THEN r ELSE to_real(r, r_fmt)
        ELSE NarrowFix_saturate(a, a_fmt, r_fmt, sat)

\* whether cl_fix_saturate issues the saturation warning
cl_fix_saturate_warns(a, a_fmt, r_fmt, sat) ==
    IF cl_fix_is_wide(a_fmt) \/ cl_fix_is_wide(r_fmt)
    THEN WideFix_saturate_warns(IF cl_fix_is_wide(a_fmt) THEN a ELSE from_narrowfix(a, a_fmt),
                                r_fmt, sat)
    ELSE NarrowFix_saturate_warns(a, r_fmt, sat)

cl_fix_resize(a, a_fmt, r_fmt, rnd, sat) ==
    LET rounded_fmt == for_round(a_fmt, r_fmt.F, rnd)
        rounded     == cl_fix_round(a, a_fmt, rounded_fmt, rnd)
    IN  cl_fix_saturate(rounded, rounded_fmt, r_fmt, sat)

\* the operand a of a cl_fix_* call as the WideFix the wide path works on
AsWide(a, a_fmt) == IF cl_fix_is_wide(a_fmt) THEN a ELSE from_narrowfix(a, a_fmt)

cl_fix_abs(a, a_fmt, r_fmt, rnd, sat) ==
    LET mid_fmt == for_abs(a_fmt)
        mid     == IF cl_fix_is_wide(a_fmt) \/ cl_fix_is_wide(mid_fmt)
                   THEN WideFix_abs(AsWide(a, a_fmt), a_fmt, None, "Trunc_s", "None_s")
                   ELSE NarrowFix_abs(a, a_fmt, None, "Trunc_s", "None_s")
    IN  cl_fix_resize(mid, mid_fmt, OrDefault(r_fmt, mid_fmt), rnd, sat)

cl_fix_neg(a, a_fmt, r_fmt, rnd, sat) ==
    LET mid_fmt == for_neg(a_fmt)
        mid     == IF cl_fix_is_wide(a_fmt) \/ cl_fix_is_wide(mid_fmt)
                   THEN WideFix_neg(AsWide(a, a_fmt), a_fmt, None, "Trunc_s", "None_s")
                   ELSE NarrowFix_neg(a, a_fmt, None, "Trunc_s", "None_s")
    IN  cl_fix_resize(mid, mid_fmt, OrDefault(r_fmt, mid_fmt), rnd, sat)

cl_fix_add(a, a_fmt, b, b_fmt, r_fmt, rnd, sat) ==
    LET mid_fmt == for_add(a_fmt, b_fmt)
        mid     == IF cl_fix_is_wide(a_fmt) \/ cl_fix_is_wide(b_fmt) \/ cl_fix_is_wide(mid_fmt)
                   THEN WideFix_add(AsWide(a, a_fmt), a_fmt, AsWide(b, b_fmt), b_fmt,
                                    None, "Trunc_s", "None_s")
                   ELSE NarrowFix_add(a, a_fmt, b, b_fmt, None, "Trunc_s", "None_s")
    IN  cl_fix_resize(mid, mid_fmt, OrDefault(r_fmt, mid_fmt), rnd, sat)

cl_fix_sub(a, a_fmt, b, b_fmt, r_fmt, rnd, sat) ==
    LET mid_fmt == for_sub(a_fmt, b_fmt)
        mid     == IF cl_fix_is_wide(a_fmt) \/ cl_fix_is_wide(b_fmt) \/ cl_fix_is_wide(mid_fmt)
                   THEN WideFix_sub(AsWide(a, a_fmt), a_fmt, AsWide(b, b_fmt), b_fmt,
                                    None, "Trunc_s", "None_s")
                   ELSE NarrowFix_sub(a, a_fmt, b, b_fmt, None, "Trunc_s", "None_s")
    IN  cl_fix_resize(mid, mid_fmt, OrDefault(r_fmt, mid_fmt), rnd, sat)

cl_fix_mult(a, a_fmt, b, b_fmt, r_fmt, rnd, sat) ==
    LET mid_fmt == for_mult(a_fmt, b_fmt)
        mid     == IF cl_fix_is_wide(a_fmt) \/ cl_fix_is_wide(b_fmt) \/ cl_fix_is_wide(mid_fmt)
                   THEN WideFix_mult(AsWide(a, a_fmt), a_fmt, AsWide(b, b_fmt), b_fmt,
                                     None, "Trunc_s", "None_s")
                   ELSE NarrowFix_mult(a, a_fmt, b, b_fmt, None, "Trunc_s", "None_s")
    IN  cl_fix_resize(mid, mid_fmt, OrDefault(r_fmt, mid_fmt), rnd, sat)

\* cl_fix_addsub(a, a_fmt, b, b_fmt, add, r_fmt, rnd, sat) for one element
cl_fix_addsub(a, a_fmt, b, b_fmt, add, r_fmt, rnd, sat) ==
    LET radd == cl_fix_add(a, a_fmt, b, b_fmt, r_fmt, rnd, sat)
        rsub == cl_fix_sub(a, a_fmt, b, b_fmt, r_fmt, rnd, sat)
    IN  IF add THEN radd ELSE rsub

\* whether cl_fix_shift gets a value from a << shift
cl_fix_shift_status(a_fmt, shift) ==
    IF cl_fix_is_wide(a_fmt) \/ cl_fix_is_wide(for_shift(a_fmt, shift, shift))
    THEN WideFix_shift_status(shift)
    ELSE "ok"

cl_fix_shift(a, a_fmt, shift, r_fmt, rnd, sat) ==
    LET mid_fmt == for_shift(a_fmt, shift, shift)
        mid     == IF cl_fix_is_wide(a_fmt) \/ cl_fix_is_wide(mid_fmt)
                   THEN WideFix_shift(AsWide(a, a_fmt), a_fmt, shift, None, "Trunc_s", "None_s")
                   ELSE NarrowFix_shift(a, a_fmt, shift, None, "Trunc_s", "None_s")
    IN  cl_fix_resize(mid, mid_fmt, OrDefault(r_fmt, mid_fmt), rnd, sat)

---------------------------------------------------------------------------
(* The formats and data the calls are drawn from *)

IFRange == (-MaxNegIF) .. MaxPosIF

\* every format the constructor accepts, within the bounds
Formats == {fmt \in [S : {0, 1}, I : IFRange, F : IFRange] :
                FixFormat_init(fmt.S, fmt.I, fmt.F) /\ width(fmt) <= MaxWidth}

\* the formats the derivations accept as operands ("Data widths must be positive")
OperandFormats == {fmt \in Formats : width(fmt) > 0}

\* every datum of a format (the counter of the tests' get_data)
DataOf(fmt) == MinValue(fmt) .. MaxValue(fmt)

ShiftRange == (-MaxShift) .. MaxShift

NoCall == [op |-> "none"]

---------------------------------------------------------------------------
(* Format derivations, called with the formats of two operands a and b.    *)
(* The operand data are part of the call so that the result of the         *)
(* operation can be set against the derived format.                        *)

Derived2(name, a_fmt, a, b_fmt, b, r_fmt) ==
    /\ call' = [op |-> name, a_fmt |-> a_fmt, a |-> a, b_fmt |-> b_fmt, b |-> b]
    /\ ret' = [fmt |-> r_fmt]
    /\ pc' = "done"

ForAdd ==
    /\ pc = "idle"
    /\ \E a_fmt \in OperandFormats, b_fmt \in OperandFormats :
         \E a \in DataOf(a_fmt), b \in DataOf(b_fmt) :
            Derived2("for_add", a_fmt, a, b_fmt, b, for_add(a_fmt, b_fmt))

ForSub ==
    /\ pc = "idle"
    /\ \E a_fmt \in OperandFormats, b_fmt \in OperandFormats :
         \E a \in DataOf(a_fmt), b \in DataOf(b_fmt) :
            Derived2("for_sub", a_fmt, a, b_fmt, b, for_sub(a_fmt, b_fmt))

ForAddsub ==
    /\ pc = "idle"
    /\ \E a_fmt \in OperandFormats, b_fmt \in OperandFormats :
         \E a \in DataOf(a_fmt), b \in DataOf(b_fmt) :
            Derived2("for_addsub", a_fmt, a, b_fmt, b, for_addsub(a_fmt, b_fmt))

ForMult ==
    /\ pc = "idle"
    /\ \E a_fmt \in OperandFormats, b_fmt \in OperandFormats :
         \E a \in DataOf(a_fmt), b \in DataOf(b_fmt) :
            Derived2("for_mult", a_fmt, a, b_fmt, b, for_mult(a_fmt, b_fmt))

Derived1(name, a_fmt, a, r_fmt) ==
    /\ call' = [op |-> name, a_fmt |-> a_fmt, a |-> a]
    /\ ret' = [fmt |-> r_fmt]
    /\ pc' = "done"

ForNeg ==
    /\ pc = "idle"
    /\ \E a_fmt \in OperandFormats :
         \E a \in DataOf(a_fmt) : Derived1("for_neg", a_fmt, a, for_neg(a_fmt))

ForAbs ==
    /\ pc = "idle"
    /\ \E a_fmt \in OperandFormats :
         \E a \in DataOf(a_fmt) : Derived1("for_abs", a_fmt, a, for_abs(a_fmt))

ForShift ==
    /\ pc = "idle"
    /\ \E a_fmt \in OperandFormats :
         \E a \in DataOf(a_fmt), minShift \in ShiftRange, maxShift \in ShiftRange :
            /\ minShift <= maxShift
            /\ call' = [op |-> "for_shift", a_fmt |-> a_fmt, a |-> a,
                        minShift |-> minShift, maxShift |-> maxShift]
            /\ ret' = [fmt |-> for_shift(a_fmt, minShift, maxShift)]
    /\ pc' = "done"

---------------------------------------------------------------------------
(* Rounding *)

\* formats of the unit tests of resize, wider than the enumerated ones
TestFormats == {FixFormat(1, 3, 1), FixFormat(1, 3, 0), FixFormat(0, 3, 1), FixFormat(0, 3, 0)}

\* target fraction-bit counts
FracRange == (-(MaxNegIF + 1)) .. (MaxPosIF + 1)

\* a.round(for_round(a.fmt, rFracBits, rnd), rnd) on a WideFix a
WideRound ==
    /\ pc = "idle"
    /\ \E a_fmt \in OperandFormats \cup TestFormats, rFracBits \in FracRange, rnd \in FixRound :
         \E a \in DataOf(a_fmt) :
            LET r_fmt == for_round(a_fmt, rFracBits, rnd) IN
            /\ call' = [op |-> "WideFix.round", a_fmt |-> a_fmt, a |-> a,
                        r_fmt |-> r_fmt, rnd |-> rnd]
            /\ ret' = [fmt |-> r_fmt, data |-> WideFix_round(a, a_fmt, r_fmt, rnd)]
    /\ pc' = "done"

\* the same on a NarrowFix a
NarrowRound ==
    /\ pc = "idle"
    /\ \E a_fmt \in OperandFormats \cup TestFormats, rFracBits \in FracRange, rnd \in FixRound :
         \E a \in DataOf(a_fmt) :
            LET r_fmt == for_round(a_fmt, rFracBits, rnd) IN
            /\ call' = [op |-> "NarrowFix.round", a_fmt |-> a_fmt, a |-> from_integer(a, a_fmt),
                        r_fmt |-> r_fmt, rnd |-> rnd]
            /\ ret' = [fmt |-> r_fmt,
                       data |-> NarrowFix_round(from_integer(a, a_fmt), a_fmt, r_fmt, rnd)]
    /\ pc' = "done"

\* FixFormat.for_round(a_fmt, rFracBits, rnd)
ForRound ==
    /\ pc = "idle"
    /\ \E a_fmt \in OperandFormats \cup TestFormats, rFracBits \in FracRange, rnd \in FixRound :
         /\ call' = [op |-> "for_round", a_fmt |-> a_fmt, rFracBits |-> rFracBits, rnd |-> rnd]
         /\ ret' = [fmt |-> for_round(a_fmt, rFracBits, rnd)]
    /\ pc' = "done"

\* FixFormat.union(a_fmt, b_fmt)
ForUnion ==
    /\ pc = "idle"
    /\ \E a_fmt \in OperandFormats, b_fmt \in OperandFormats :
         /\ call' = [op |-> "union", a_fmt |-> a_fmt, b_fmt |-> b_fmt]
         /\ ret' = [fmt |-> union(a_fmt, b_fmt)]
    /\ pc' = "done"

---------------------------------------------------------------------------
(* Saturation and resizing *)

\* the formats with fmt.F fraction bits, the null ones included
SameFrac(fmt) == {r_fmt \in Formats \cup TestFormats : r_fmt.F = fmt.F}

Ok(fmt, data, warned) == [status |-> "ok", fmt |-> fmt, data |-> data, warned |-> warned]

AssertionError == [status |-> "AssertionError"]

\* a.saturate(r_fmt, sat) on a WideFix a
WideSaturate ==
    /\ pc = "idle"
    /\ \E a_fmt \in OperandFormats \cup TestFormats, sat \in FixSaturate :
         \E a \in DataOf(a_fmt), r_fmt \in SameFrac(a_fmt) :
            /\ call' = [op |-> "WideFix.saturate", a_fmt |-> a_fmt, a |-> a,
                        r_fmt |-> r_fmt, sat |-> sat]
            /\ ret' = Ok(r_fmt, WideFix_saturate(a, r_fmt, sat),
                         WideFix_saturate_warns(a, r_fmt, sat))
    /\ pc' = "done"

\* the same on a NarrowFix a
NarrowSaturate ==
    /\ pc = "idle"
    /\ \E a_fmt \in OperandFormats \cup TestFormats, sat \in FixSaturate :
         \E a \in DataOf(a_fmt), r_fmt \in SameFrac(a_fmt) :
            LET data == from_integer(a, a_fmt) IN
            /\ call' = [op |-> "NarrowFix.saturate", a_fmt |-> a_fmt, a |-> data,
                        r_fmt |-> r_fmt, sat |-> sat]
            /\ ret' = Ok(r_fmt, NarrowFix_saturate(data, a_fmt, r_fmt, sat),
                         NarrowFix_saturate_warns(data, r_fmt, sat))
    /\ pc' = "done"

\* what a.resize(r_fmt, rnd, sat) returns or raises on a WideFix a:
\* for_round asserts that the width of a_fmt is positive
WideResized(a, a_fmt, r_fmt, rnd, sat) ==
    IF width(a_fmt) > 0
    THEN Ok(r_fmt, WideFix_resize(a, a_fmt, r_fmt, rnd, sat),
            WideFix_saturate_warns(WideFix_round(a, a_fmt, for_round(a_fmt, r_fmt.F, rnd), rnd),
                                   r_fmt, sat))
    ELSE AssertionError

\* what cl_fix_resize(a, a_fmt, r_fmt, rnd, sat) returns or raises
ClFixResized(a, a_fmt, r_fmt, rnd, sat) ==
    IF width(a_fmt) > 0
    THEN Ok(r_fmt, cl_fix_resize(a, a_fmt, r_fmt, rnd, sat),
            cl_fix_saturate_warns(cl_fix_round(a, a_fmt, for_round(a_fmt, r_fmt.F, rnd), rnd),
                                  for_round(a_fmt, r_fmt.F, rnd), r_fmt, sat))
    ELSE AssertionError

\* a.resize(r_fmt, rnd, sat) on a WideFix a of any format that can be built
WideResize ==
    /\ pc = "idle"
    /\ \E a_fmt, r_fmt \in Formats \cup TestFormats, rnd \in FixRound, sat \in FixSaturate :
         \E a \in DataOf(a_fmt) :
            /\ call' = [op |-> "WideFix.resize", a_fmt |-> a_fmt, a |-> a, r_fmt |-> r_fmt,
                        rnd |-> rnd, sat |-> sat, again |-> FALSE]
            /\ ret' = WideResized(a, a_fmt, r_fmt, rnd, sat)
    /\ pc' = "done"

\* cl_fix_resize(a, a_fmt, r_fmt, rnd, sat) on data from cl_fix_from_integer
ClFixResize ==
    /\ pc = "idle"
    /\ \E a_fmt, r_fmt \in Formats \cup TestFormats, rnd \in FixRound, sat \in FixSaturate :
         \E a \in DataOf(a_fmt) :
            LET data == from_integer(a, a_fmt) IN
            /\ call' = [op |-> "cl_fix_resize", a_fmt |-> a_fmt, a |-> data, r_fmt |-> r_fmt,
                        rnd |-> rnd, sat |-> sat, again |-> FALSE]
            /\ ret' = ClFixResized(data, a_fmt, r_fmt, rnd, sat)
    /\ pc' = "done"

\* the caller resizes the result once more, to its own format r_fmt, with
\* the same rounding and saturation modes
ResizeAgain ==
    /\ pc = "done"
    /\ call.op \in {"WideFix.resize", "cl_fix_resize"}
    /\ ~call.again
    /\ ret.status = "ok"
    /\ call' = [call EXCEPT !.a_fmt = call.r_fmt, !.a = ret.data, !.again = TRUE]
    /\ ret' = IF call.op = "WideFix.resize"
              THEN WideResized(ret.data, call.r_fmt, call.r_fmt, call.rnd, call.sat)
              ELSE ClFixResized(ret.data, call.r_fmt, call.r_fmt, call.rnd, call.sat)
    /\ pc' = "done"

---------------------------------------------------------------------------
(* Arithmetic: operands, result formats *)

\* operand formats of the arithmetic calls
ArithFormats ==
    {fmt \in OperandFormats : /\ width(fmt) <= MaxWidth - 2
                              /\ fmt.I \in (-(MaxNegIF - 1)) .. (MaxPosIF - 1)
                              /\ fmt.F \in (-(MaxNegIF - 1)) .. (MaxPosIF - 1)}

\* result formats given to an operation of intermediate format mid_fmt: none,
\* one integer bit less, one fraction bit less or more, either sign
ResultFormats(mid_fmt) ==
    {None} \cup
    {<<r_fmt>> : r_fmt \in
        {fmt \in {FixFormat(0, mid_fmt.I - 1, mid_fmt.F - 1),
                  FixFormat(1, mid_fmt.I - 1, mid_fmt.F - 1),
                  FixFormat(mid_fmt.S, mid_fmt.I - 1, mid_fmt.F),
                  FixFormat(mid_fmt.S, mid_fmt.I, mid_fmt.F + 1)} :
            FixFormat_init(fmt.S, fmt.I, fmt.F)}}

AttributeError == [status |-> "AttributeError"]

Value(data) == [status |-> "ok", data |-> data]

---------------------------------------------------------------------------
(* The comparisons of the two representations made by the test and cosim
   scripts: the cl_fix_* function on float data, the WideFix method on
   WideFix.from_narrowfix of the same data *)

Compared(name, args, r_fmt, narrow, wide) ==
    /\ call' = [op |-> name] @@ args
    /\ ret' = [fmt |-> r_fmt, narrow |-> narrow, wide |-> wide]

CompareRound ==
    /\ pc = "idle"
    /\ \E a_fmt \in OperandFormats, rFracBits \in FracRange, rnd \in FixRound :
         \E a \in DataOf(a_fmt) :
            LET r_fmt == for_round(a_fmt, rFracBits, rnd)
                x     == from_integer(a, a_fmt)
            IN  Compared("round", [a_fmt |-> a_fmt, a |-> a, rnd |-> rnd], r_fmt,
                         Value(cl_fix_round(x, a_fmt, r_fmt, rnd)),
                         Value(WideFix_round(from_narrowfix(x, a_fmt), a_fmt, r_fmt, rnd)))
    /\ pc' = "done"

CompareSaturate ==
    /\ pc = "idle"
    /\ \E a_fmt \in OperandFormats, sat \in FixSaturate :
         \E a \in DataOf(a_fmt), r_fmt \in SameFrac(a_fmt) :
            LET x == from_integer(a, a_fmt)
            IN  Compared("saturate", [a_fmt |-> a_fmt, a |-> a, sat |-> sat], r_fmt,
                         Value(cl_fix_saturate(x, a_fmt, r_fmt, sat)),
                         Value(WideFix_saturate(from_narrowfix(x, a_fmt), r_fmt, sat)))
    /\ pc' = "done"

CompareResize ==
    /\ pc = "idle"
    /\ \E a_fmt \in ArithFormats, r_fmt \in Formats, rnd \in FixRound, sat \in FixSaturate :
         \E a \in DataOf(a_fmt) :
            LET x == from_integer(a, a_fmt)
            IN  Compared("resize", [a_fmt |-> a_fmt, a |-> a, rnd |-> rnd, sat |-> sat], r_fmt,
                         Value(cl_fix_resize(x, a_fmt, r_fmt, rnd, sat)),
                         Value(WideFix_resize(from_narrowfix(x, a_fmt), a_fmt, r_fmt, rnd, sat)))
    /\ pc' = "done"

CompareAdd ==
    /\ pc = "idle"
    /\ \E a_fmt, b_fmt \in ArithFormats, rnd \in FixRound, sat \in FixSaturate :
         \E a \in DataOf(a_fmt), b \in DataOf(b_fmt), r_fmt \in ResultFormats(for_add(a_fmt, b_fmt)) :
            LET x == from_integer(a, a_fmt)
                y == from_integer(b, b_fmt)
            IN  Compared("add", [a_fmt |-> a_fmt, a |-> a, b_fmt |-> b_fmt, b |-> b,
                                 r_fmt |-> r_fmt, rnd |-> rnd, sat |-> sat],
                         OrDefault(r_fmt, for_add(a_fmt, b_fmt)),
                         Value(cl_fix_add(x, a_fmt, y, b_fmt, r_fmt, rnd, sat)),
                         Value(WideFix_add(from_narrowfix(x, a_fmt), a_fmt,
                                           from_narrowfix(y, b_fmt), b_fmt, r_fmt, rnd, sat)))
    /\ pc' = "done"

CompareSub ==
    /\ pc = "idle"
    /\ \E a_fmt, b_fmt \in ArithFormats, rnd \in FixRound, sat \in FixSaturate :
         \E a \in DataOf(a_fmt), b \in DataOf(b_fmt), r_fmt \in ResultFormats(for_sub(a_fmt, b_fmt)) :
            LET x == from_integer(a, a_fmt)
                y == from_integer(b, b_fmt)
            IN  Compared("sub", [a_fmt |-> a_fmt, a |-> a, b_fmt |-> b_fmt, b |-> b,
                                 r_fmt |-> r_fmt, rnd |-> rnd, sat |-> sat],
                         OrDefault(r_fmt, for_sub(a_fmt, b_fmt)),
                         Value(cl_fix_sub(x, a_fmt, y, b_fmt, r_fmt, rnd, sat)),
                         Value(WideFix_sub(from_narrowfix(x, a_fmt), a_fmt,
                                           from_narrowfix(y, b_fmt), b_fmt, r_fmt, rnd, sat)))
    /\ pc' = "done"

CompareAbs ==
    /\ pc = "idle"
    /\ \E a_fmt \in OperandFormats, rnd \in FixRound, sat \in FixSaturate :
         \E a \in DataOf(a_fmt), r_fmt \in ResultFormats(for_abs(a_fmt)) :
            LET x == from_integer(a, a_fmt)
            IN  Compared("abs", [a_fmt |-> a_fmt, a |-> a, r_fmt |-> r_fmt,
                                 rnd |-> rnd, sat |-> sat],
                         OrDefault(r_fmt, for_abs(a_fmt)),
                         Value(cl_fix_abs(x, a_fmt, r_fmt, rnd, sat)),
                         Value(WideFix_abs(from_narrowfix(x, a_fmt), a_fmt, r_fmt, rnd, sat)))
    /\ pc' = "done"

CompareShift ==
    /\ pc = "idle"
    /\ \E a_fmt \in ArithFormats, shift \in ShiftRange, rnd \in FixRound, sat \in FixSaturate :
         \E a \in DataOf(a_fmt), r_fmt \in ResultFormats(for_shift(a_fmt, shift, shift)) :
            LET x == from_integer(a, a_fmt)
            IN  Compared("shift", [a_fmt |-> a_fmt, a |-> a, shift |-> shift, r_fmt |-> r_fmt,
                                   rnd |-> rnd, sat |-> sat],
                         OrDefault(r_fmt, for_shift(a_fmt, shift, shift)),
                         IF cl_fix_shift_status(a_fmt, shift) = "ok"
                         THEN Value(cl_fix_shift(x, a_fmt, shift, r_fmt, rnd, sat))
                         ELSE AttributeError,
                         IF WideFix_shift_status(shift) = "ok"
                         THEN Value(WideFix_shift(from_narrowfix(x, a_fmt), a_fmt, shift,
                                                  r_fmt, rnd, sat))
                         ELSE AttributeError)
    /\ pc' = "done"

---------------------------------------------------------------------------
(* Arithmetic with a result format, a rounding mode and a saturation mode *)

\* formats of the second operand: one bit
OneBitFormats == {fmt \in ArithFormats : width(fmt) = 1}

\* a call of an arithmetic operation whose intermediate format is mid_fmt,
\* and the data it returns
Computed(name, args, mid_fmt, data) ==
    /\ call' = [op |-> name, mid_fmt |-> mid_fmt] @@ args
    /\ ret' = Value(data)

\* a.neg(r_fmt, rnd, sat), a.add(b, ...), a.sub(b, ...), a.mult(b, ...) on WideFix
WideNeg ==
    /\ pc = "idle"
    /\ \E a_fmt \in OperandFormats, rnd \in FixRound, sat \in FixSaturate :
         \E a \in DataOf(a_fmt), r_fmt \in ResultFormats(for_neg(a_fmt)) :
            Computed("WideFix.neg", [a_fmt |-> a_fmt, a |-> a, r_fmt |-> r_fmt, rnd |-> rnd, sat |-> sat],
                     for_neg(a_fmt),
                     WideFix_neg(a, a_fmt, r_fmt, rnd, sat))
    /\ pc' = "done"

WideAdd ==
    /\ pc = "idle"
    /\ \E a_fmt \in ArithFormats, b_fmt \in OneBitFormats, rnd \in FixRound, sat \in FixSaturate :
         \E a \in DataOf(a_fmt), b \in DataOf(b_fmt), r_fmt \in ResultFormats(for_add(a_fmt, b_fmt)) :
            Computed("WideFix.add", [a_fmt |-> a_fmt, a |-> a, b_fmt |-> b_fmt, b |-> b,
                                  r_fmt |-> r_fmt, rnd |-> rnd, sat |-> sat],
                     for_add(a_fmt, b_fmt),
                     WideFix_add(a, a_fmt, b, b_fmt, r_fmt, rnd, sat))
    /\ pc' = "done"

WideSub ==
    /\ pc = "idle"
    /\ \E a_fmt \in ArithFormats, b_fmt \in OneBitFormats, rnd \in FixRound, sat \in FixSaturate :
         \E a \in DataOf(a_fmt), b \in DataOf(b_fmt), r_fmt \in ResultFormats(for_sub(a_fmt, b_fmt)) :
            Computed("WideFix.sub", [a_fmt |-> a_fmt, a |-> a, b_fmt |-> b_fmt, b |-> b,
                                  r_fmt |-> r_fmt, rnd |-> rnd, sat |-> sat],
                     for_sub(a_fmt, b_fmt),
                     WideFix_sub(a, a_fmt, b, b_fmt, r_fmt, rnd, sat))
    /\ pc' = "done"

WideMult ==
    /\ pc = "idle"
    /\ \E a_fmt \in ArithFormats, b_fmt \in OneBitFormats, rnd \in FixRound, sat \in FixSaturate :
         \E a \in DataOf(a_fmt), b \in DataOf(b_fmt), r_fmt \in ResultFormats(for_mult(a_fmt, b_fmt)) :
            Computed("WideFix.mult", [a_fmt |-> a_fmt, a |-> a, b_fmt |-> b_fmt, b |-> b,
                                   r_fmt |-> r_fmt, rnd |-> rnd, sat |-> sat],
                     for_mult(a_fmt, b_fmt),
                     WideFix_mult(a, a_fmt, b, b_fmt, r_fmt, rnd, sat))
    /\ pc' = "done"

\* cl_fix_neg, cl_fix_add, cl_fix_sub, cl_fix_mult on data from cl_fix_from_integer
ClFixNeg ==
    /\ pc = "idle"
    /\ \E a_fmt \in OperandFormats, rnd \in FixRound, sat \in FixSaturate :
         \E a \in DataOf(a_fmt), r_fmt \in ResultFormats(for_neg(a_fmt)) :
            Computed("cl_fix_neg", [a_fmt |-> a_fmt, a |-> a, r_fmt |-> r_fmt, rnd |-> rnd, sat |-> sat],
                     for_neg(a_fmt),
                     cl_fix_neg(from_integer(a, a_fmt), a_fmt, r_fmt, rnd, sat))
    /\ pc' = "done"

ClFixAdd ==
    /\ pc = "idle"
    /\ \E a_fmt \in ArithFormats, b_fmt \in OneBitFormats, rnd \in FixRound, sat \in FixSaturate :
         \E a \in DataOf(a_fmt), b \in DataOf(b_fmt), r_fmt \in ResultFormats(for_add(a_fmt, b_fmt)) :
            Computed("cl_fix_add", [a_fmt |-> a_fmt, a |-> a, b_fmt |-> b_fmt, b |-> b,
                                 r_fmt |-> r_fmt, rnd |-> rnd, sat |-> sat],
                     for_add(a_fmt, b_fmt),
                     cl_fix_add(from_integer(a, a_fmt), a_fmt, from_integer(b, b_fmt), b_fmt,
                                         r_fmt, rnd, sat))
    /\ pc' = "done"

ClFixSub ==
    /\ pc = "idle"
    /\ \E a_fmt \in ArithFormats, b_fmt \in OneBitFormats, rnd \in FixRound, sat \in FixSaturate :
         \E a \in DataOf(a_fmt), b \in DataOf(b_fmt), r_fmt \in ResultFormats(for_sub(a_fmt, b_fmt)) :
            Computed("cl_fix_sub", [a_fmt |-> a_fmt, a |-> a, b_fmt |-> b_fmt, b |-> b,
                                 r_fmt |-> r_fmt, rnd |-> rnd, sat |-> sat],
                     for_sub(a_fmt, b_fmt),
                     cl_fix_sub(from_integer(a, a_fmt), a_fmt, from_integer(b, b_fmt), b_fmt,
                                         r_fmt, rnd, sat))
    /\ pc' = "done"

ClFixMult ==
    /\ pc = "idle"
    /\ \E a_fmt \in ArithFormats, b_fmt \in OneBitFormats, rnd \in FixRound, sat \in FixSaturate :
         \E a \in DataOf(a_fmt), b \in DataOf(b_fmt), r_fmt \in ResultFormats(for_mult(a_fmt, b_fmt)) :
            Computed("cl_fix_mult", [a_fmt |-> a_fmt, a |-> a, b_fmt |-> b_fmt, b |-> b,
                                  r_fmt |-> r_fmt, rnd |-> rnd, sat |-> sat],
                     for_mult(a_fmt, b_fmt),
                     cl_fix_mult(from_integer(a, a_fmt), a_fmt, from_integer(b, b_fmt), b_fmt,
                                          r_fmt, rnd, sat))
    /\ pc' = "done"

---------------------------------------------------------------------------
(* Comparison of two WideFix *)

\* a_wide <op> b_wide
WideFix_compare(op, a, a_fmt, b, b_fmt) ==
    CASE op = "__eq__" -> WideFix_eq(a, a_fmt, b, b_fmt)
      [] op = "__ne__" -> WideFix_ne(a, a_fmt, b, b_fmt)
      [] op = "__lt__" -> WideFix_lt(a, a_fmt, b, b_fmt)
      [] op = "__le__" -> WideFix_le(a, a_fmt, b, b_fmt)
      [] op = "__gt__" -> WideFix_gt(a, a_fmt, b, b_fmt)
      [] op = "__ge__" -> WideFix_ge(a, a_fmt, b, b_fmt)

\* one comparison of every datum of a format with every datum of another
Comparison(op) ==
    /\ pc = "idle"
    /\ \E a_fmt, b_fmt \in OperandFormats :
         \E a \in DataOf(a_fmt), b \in DataOf(b_fmt) :
            /\ call' = [op |-> op, a_fmt |-> a_fmt, a |-> a, b_fmt |-> b_fmt, b |-> b]
            /\ ret' = Value(WideFix_compare(op, a, a_fmt, b, b_fmt))
    /\ pc' = "done"

Eq == Comparison("__eq__")
Ne == Comparison("__ne__")
Lt == Comparison("__lt__")
Le == Comparison("__le__")
Gt == Comparison("__gt__")
Ge == Comparison("__ge__")

---------------------------------------------------------------------------
(* Conversion from and to raw integers *)

\* formats wider than NarrowFix.MAX_WIDTH
WideFormats ==
    {FixFormat(0, MAX_WIDTH + 1, 0), FixFormat(1, MAX_WIDTH, 0), FixFormat(1, MAX_WIDTH + 1, -1)}

\* raw integers handed to the conversions as one Python int: for a narrow
\* format its data and the integers next to them, for a wide one small ones
Bits(fmt) ==
    IF cl_fix_is_wide(fmt) THEN (-MaxWidth) .. MaxWidth
    ELSE (MinValue(fmt) - 2) .. (MaxValue(fmt) + 2)

\* elements of the arrays handed to the conversions
Elements(fmt) ==
    IF cl_fix_is_wide(fmt) THEN {-1, 0, 1}
    ELSE {MinValue(fmt) - 1, MinValue(fmt), MaxValue(fmt), MaxValue(fmt) + 1}

\* longest array
MaxLen == 2

Arrays(fmt) == UNION {[1 .. n -> Elements(fmt)] : n \in 1 .. MaxLen}

ValueError == [status |-> "ValueError"]

\* a returned object of a Python type
Typed(type, data) == [status |-> "ok", type |-> type, data |-> data]

\* what NarrowFix.from_integer(a, a_fmt) returns or raises; in_range calls
\* for_round, which asserts a positive width
NarrowFix_from_integer(a, a_fmt) ==
    LET value == [i \in DOMAIN a |-> from_integer(a[i], a_fmt)] IN
    IF width(a_fmt) <= 0 THEN AssertionError
    ELSE IF ~(\A i \in DOMAIN a : NarrowFix_in_range(value[i], a_fmt, a_fmt, "Trunc_s"))
    THEN ValueError
    ELSE Typed("float64", value)

\* what cl_fix_from_integer(a, r_fmt) returns or raises; a is a Python int
\* (type "int", left alone by _clean_input) or an array (type "ndarray")
cl_fix_from_integer(a, type, r_fmt) ==
    IF cl_fix_is_wide(r_fmt) THEN Typed(type, a)
    ELSE NarrowFix_from_integer(a, r_fmt)

\* what cl_fix_to_integer(a, a_fmt) returns or raises on a returned by
\* cl_fix_from_integer: a.data is the buffer of an int64 array, and no
\* attribute of an int
cl_fix_to_integer(a, a_fmt) ==
    IF cl_fix_is_wide(a_fmt)
    THEN IF a.type = "ndarray" THEN Typed("memoryview", a.data) ELSE AttributeError
    ELSE Typed("int64", [i \in DOMAIN a.data |-> NarrowFix_to_integer(a.data[i], a_fmt)])

\* cl_fix_from_integer(a, r_fmt) on one Python int
FromInteger ==
    /\ pc = "idle"
    /\ \E r_fmt \in Formats \cup WideFormats :
         \E a \in Bits(r_fmt) :
            /\ call' = [op |-> "cl_fix_from_integer", bits |-> <<a>>, type |-> "int",
                        a |-> <<a>>, fmt |-> r_fmt]
            /\ ret' = cl_fix_from_integer(<<a>>, "int", r_fmt)
    /\ pc' = "done"

\* cl_fix_from_integer(a, r_fmt) on an array
FromIntegerArray ==
    /\ pc = "idle"
    /\ \E r_fmt \in Formats \cup WideFormats :
         \E a \in Arrays(r_fmt) :
            /\ call' = [op |-> "cl_fix_from_integer", bits |-> a, type |-> "ndarray",
                        a |-> a, fmt |-> r_fmt]
            /\ ret' = cl_fix_from_integer(a, "ndarray", r_fmt)
    /\ pc' = "done"

\* cl_fix_to_integer(x, fmt) on the x that cl_fix_from_integer(bits, fmt) returned
ToInteger ==
    /\ pc = "done"
    /\ call.op = "cl_fix_from_integer"
    /\ ret.status = "ok"
    /\ call' = [call EXCEPT !.op = "cl_fix_to_integer", !.a = ret.data]
    /\ ret' = cl_fix_to_integer(ret, call.fmt)
    /\ pc' = "done"

---------------------------------------------------------------------------
(* Conversion from real numbers *)

\* the float inputs: the multiples of a step finer than every format, up
\* to beyond the range of every format
RealInputs ==
    {k * Pow2R(-(MaxPosIF + 2)) :
        k \in (-((2^MaxPosIF + 1) * 2^(MaxPosIF + 2))) .. ((2^MaxPosIF + 1) * 2^(MaxPosIF + 2))}

NotImplementedError(warned) == [status |-> "NotImplementedError", warned |-> warned]

\* whether NarrowFix.from_real warns before it quantizes
NarrowFix_from_real_warns(a, r_fmt, saturate) ==
    /\ saturate \in {"SatWarn_s", "Warn_s"}
    /\ (a > max_value(r_fmt) \/ a < min_value(r_fmt))

\* NarrowFix.from_real that quantizes by truncation
NarrowFix_from_real_truncating(a, r_fmt, saturate) ==
    LET x       == IntMul(FloorMul(FloatShift(a, r_fmt.F), 0), -r_fmt.F)
        clamped == IF x > max_value(r_fmt) THEN max_value(r_fmt)
                   ELSE IF x < min_value(r_fmt) THEN min_value(r_fmt) ELSE x
        warned  == NarrowFix_from_real_warns(a, r_fmt, saturate)
    IN  IF saturate \in {"Sat_s", "SatWarn_s"} THEN Ok(r_fmt, clamped, warned)
        ELSE NotImplementedError(warned)

\* NarrowFix.from_real that returns the quantized value as it is in the modes
\* without saturation
NarrowFix_from_real_unsaturated(a, r_fmt, saturate) ==
    LET x       == IntMul(FloorMul(FloatShift(a, r_fmt.F) + Pow2R(-1), 0), -r_fmt.F)
        clamped == IF x > max_value(r_fmt) THEN max_value(r_fmt)
                   ELSE IF x < min_value(r_fmt) THEN min_value(r_fmt) ELSE x
        warned  == NarrowFix_from_real_warns(a, r_fmt, saturate)
    IN  IF saturate \in {"Sat_s", "SatWarn_s"} THEN Ok(r_fmt, clamped, warned)
        ELSE Ok(r_fmt, x, warned)

\* what NarrowFix.from_real(a, r_fmt, saturate) returns or raises
NarrowFix_from_real(a, r_fmt, saturate) ==
    LET x       == IntMul(FloorMul(FloatShift(a, r_fmt.F) + Pow2R(-1), 0), -r_fmt.F)
        clamped == IF x > max_value(r_fmt) THEN max_value(r_fmt)
                   ELSE IF x < min_value(r_fmt) THEN min_value(r_fmt) ELSE x
        warned  == NarrowFix_from_real_warns(a, r_fmt, saturate)
    IN  IF saturate \in {"Sat_s", "SatWarn_s"} THEN Ok(r_fmt, clamped, warned)
        ELSE NotImplementedError(warned)

\* what WideFix.FromFloat(a, r_fmt, saturate) returns or raises
WideFix_FromFloat(a, r_fmt, saturate) ==
    LET amax    == from_narrowfix(a, r_fmt)
        warned  == /\ saturate \in {"SatWarn_s", "Warn_s"}
                   /\ (amax > MaxValue(r_fmt) \/ amax < MinValue(r_fmt))
        x       == FloorMul(FloatShift(a, r_fmt.F) + Pow2R(-1), 0)
        clamped == IF x > MaxValue(r_fmt) THEN MaxValue(r_fmt)
                   ELSE IF x < MinValue(r_fmt) THEN MinValue(r_fmt) ELSE x
    IN  IF saturate # "SatWarn_s" /\ saturate # "Sat_s" THEN ValueError
        ELSE Ok(r_fmt, clamped, warned)

\* what cl_fix_from_real(a, r_fmt, saturate) returns or raises
cl_fix_from_real(a, r_fmt, saturate) ==
    IF cl_fix_is_wide(r_fmt) THEN WideFix_FromFloat(a, r_fmt, saturate)
    ELSE NarrowFix_from_real(a, r_fmt, saturate)

NarrowFromReal ==
    /\ pc = "idle"
    /\ \E a \in RealInputs, r_fmt \in Formats, saturate \in FixSaturate :
            /\ call' = [op |-> "NarrowFix.from_real", a |-> a, r_fmt |-> r_fmt, sat |-> saturate]
            /\ ret' = NarrowFix_from_real(a, r_fmt, saturate)
    /\ pc' = "done"

WideFromFloat ==
    /\ pc = "idle"
    /\ \E a \in RealInputs, r_fmt \in Formats, saturate \in FixSaturate :
            /\ call' = [op |-> "WideFix.FromFloat", a |-> a, r_fmt |-> r_fmt, sat |-> saturate]
            /\ ret' = WideFix_FromFloat(a, r_fmt, saturate)
    /\ pc' = "done"

ClFixFromReal ==
    /\ pc = "idle"
    /\ \E a \in RealInputs, r_fmt \in Formats, saturate \in FixSaturate :
            /\ call' = [op |-> "cl_fix_from_real", a |-> a, r_fmt |-> r_fmt, sat |-> saturate]
            /\ ret' = cl_fix_from_real(a, r_fmt, saturate)
    /\ pc' = "done"

---------------------------------------------------------------------------
(* Saturation of arrays, and its warning *)

\* elements of the arrays given to saturate: the data of a_fmt at and next
\* to the bounds of r_fmt
Samples(a_fmt, r_fmt) ==
    {MinValue(r_fmt) - 1, MinValue(r_fmt), MaxValue(r_fmt), MaxValue(r_fmt) + 1} \cap DataOf(a_fmt)

Batches(a_fmt, r_fmt) == UNION {[1 .. n -> Samples(a_fmt, r_fmt)] : n \in 1 .. MaxLen}

\* a returned array and the warnings issued on the way, in their order
Warned(fmt, data, warnings) ==
    [status |-> "ok", fmt |-> fmt, data |-> data, warnings |-> warnings]

\* the warnings of WideFix.saturate that looks for values above the maximum only
WideFix_saturate_warnings_above_only(data, r_fmt, sat) ==
    IF /\ sat \in {"Warn_s", "SatWarn_s"}
       /\ \E i \in DOMAIN data : data[i] > MaxValue(r_fmt)
    THEN <<"resize : Saturation warning!">>
    ELSE <<>>

\* the warnings WideFix.saturate(r_fmt, sat) issues on an array
WideFix_saturate_warnings(data, r_fmt, sat) ==
    IF /\ sat \in {"Warn_s", "SatWarn_s"}
       /\ \/ \E i \in DOMAIN data : data[i] > MaxValue(r_fmt)
          \/ \E i \in DOMAIN data : data[i] < MinValue(r_fmt)
    THEN <<"resize : Saturation warning!">>
    ELSE <<>>

\* the warnings NarrowFix.saturate(r_fmt, sat) issues on an array
NarrowFix_saturate_warnings(data, r_fmt, sat) ==
    IF /\ sat \in {"Warn_s", "SatWarn_s"}
       /\ \/ \E i \in DOMAIN data : data[i] > max_value(r_fmt)
          \/ \E i \in DOMAIN data : data[i] < min_value(r_fmt)
    THEN <<"NarrowFix.saturate : Saturation warning!">>
    ELSE <<>>

Exception == [status |-> "Exception"]

\* cl_fix_resize of the module en_cl_fix_pkg.py of src/python: what it returns
\* or raises
pkg_cl_fix_resize(a, aFmt, rFmt, rnd, sat) ==
    LET result   == NarrowFix_round(a, aFmt, rFmt, rnd)
        overflow == IF rFmt.S = 1
                    THEN result >= Pow2R(rFmt.I) \/ result < -Pow2R(rFmt.I)
                    ELSE result >= Pow2R(rFmt.I) \/ result < 0
        wrapped  == IF rFmt.S = 1
                    THEN ((result + Pow2R(rFmt.I)) % Pow2R(rFmt.I + 1)) - Pow2R(rFmt.I)
                    ELSE result % Pow2R(rFmt.I)
        clamped  == IF result > max_value(rFmt) THEN max_value(rFmt)
                    ELSE IF result < min_value(rFmt) THEN min_value(rFmt) ELSE result
    IN  IF sat \in {"Warn_s", "SatWarn_s"} /\ overflow THEN Exception
        ELSE IF sat \in {"None_s", "Warn_s"} THEN Warned(rFmt, <<wrapped>>, <<>>)
        ELSE Warned(rFmt, <<clamped>>, <<>>)

\* a.saturate(r_fmt, sat) on a WideFix a that holds an array
WideSaturateBatch ==
    /\ pc = "idle"
    /\ \E a_fmt \in OperandFormats, sat \in FixSaturate :
         \E r_fmt \in SameFrac(a_fmt) :
            \E a \in Batches(a_fmt, r_fmt) :
                /\ call' = [op |-> "WideFix.saturate", a_fmt |-> a_fmt, a |-> a,
                            r_fmt |-> r_fmt, sat |-> sat]
                /\ ret' = Warned(r_fmt, [i \in DOMAIN a |-> WideFix_saturate(a[i], r_fmt, sat)],
                                 WideFix_saturate_warnings(a, r_fmt, sat))
    /\ pc' = "done"

\* the same on a NarrowFix a
NarrowSaturateBatch ==
    /\ pc = "idle"
    /\ \E a_fmt \in OperandFormats, sat \in FixSaturate :
         \E r_fmt \in SameFrac(a_fmt) :
            \E a \in Batches(a_fmt, r_fmt) :
                LET data == [i \in DOMAIN a |-> from_integer(a[i], a_fmt)] IN
                /\ call' = [op |-> "NarrowFix.saturate", a_fmt |-> a_fmt, a |-> data,
                            r_fmt |-> r_fmt, sat |-> sat]
                /\ ret' = Warned(r_fmt,
                                 [i \in DOMAIN a |-> NarrowFix_saturate(data[i], a_fmt, r_fmt, sat)],
                                 NarrowFix_saturate_warnings(data, r_fmt, sat))
    /\ pc' = "done"

\* cl_fix_resize(a, aFmt, rFmt, rnd, sat) of src/python on one number
PkgResize ==
    /\ pc = "idle"
    /\ \E a_fmt \in OperandFormats, rnd \in FixRound, sat \in FixSaturate :
         \E a \in DataOf(a_fmt), r_fmt \in ResultFormats(a_fmt) \ {None} :
            LET data == from_integer(a, a_fmt) IN
            /\ call' = [op |-> "en_cl_fix_pkg.cl_fix_resize", a_fmt |-> a_fmt, a |-> <<data>>,
                        r_fmt |-> r_fmt[1], rnd |-> rnd, sat |-> sat]
            /\ ret' = pkg_cl_fix_resize(data, a_fmt, r_fmt[1], rnd, sat)
    /\ pc' = "done"

---------------------------------------------------------------------------
(* Construction of a format *)

\* the numbers given to the constructor
SignArgs == -1 .. 2
BitArgs == (-(MaxNegIF + 1)) .. (MaxPosIF + 1)

\* FixFormat(S, I, F)
Construct ==
    /\ pc = "idle"
    /\ \E S \in SignArgs, I \in BitArgs, F \in BitArgs :
            /\ call' = [op |-> "FixFormat", S |-> S, I |-> I, F |-> F]
            /\ ret' = IF FixFormat_init(S, I, F)
                      THEN [status |-> "ok", fmt |-> FixFormat(S, I, F)]
                      ELSE AssertionError
    /\ pc' = "done"

---------------------------------------------------------------------------
(* Absolute value *)

\* a.abs(r_fmt, rnd, sat) on a WideFix a
WideAbs ==
    /\ pc = "idle"
    /\ \E a_fmt \in OperandFormats, rnd \in FixRound, sat \in FixSaturate :
         \E a \in DataOf(a_fmt), r_fmt \in ResultFormats(for_abs(a_fmt)) :
            Computed("WideFix.abs", [a_fmt |-> a_fmt, a |-> a, r_fmt |-> r_fmt, rnd |-> rnd, sat |-> sat],
                     for_abs(a_fmt),
                     WideFix_abs(a, a_fmt, r_fmt, rnd, sat))
    /\ pc' = "done"

\* a.abs(r_fmt, rnd, sat) on a NarrowFix a
NarrowAbs ==
    /\ pc = "idle"
    /\ \E a_fmt \in OperandFormats, rnd \in FixRound, sat \in FixSaturate :
         \E a \in DataOf(a_fmt), r_fmt \in ResultFormats(for_abs(a_fmt)) :
            Computed("NarrowFix.abs", [a_fmt |-> a_fmt, a |-> a, r_fmt |-> r_fmt, rnd |-> rnd, sat |-> sat],
                     for_abs(a_fmt),
                     NarrowFix_abs(from_integer(a, a_fmt), a_fmt, r_fmt, rnd, sat))
    /\ pc' = "done"

\* cl_fix_abs(a, a_fmt, r_fmt, rnd, sat)
ClFixAbs ==
    /\ pc = "idle"
    /\ \E a_fmt \in OperandFormats, rnd \in FixRound, sat \in FixSaturate :
         \E a \in DataOf(a_fmt), r_fmt \in ResultFormats(for_abs(a_fmt)) :
            Computed("cl_fix_abs", [a_fmt |-> a_fmt, a |-> a, r_fmt |-> r_fmt, rnd |-> rnd, sat |-> sat],
                     for_abs(a_fmt),
                     cl_fix_abs(from_integer(a, a_fmt), a_fmt, r_fmt, rnd, sat))
    /\ pc' = "done"

---------------------------------------------------------------------------
(* Addition or subtraction chosen element by element *)

\* arrays of two elements of a format, as in the unit test of cl_fix_addsub
Pairs(fmt) == [1 .. 2 -> DataOf(fmt)]

\* the flags add of two elements
Flags == [1 .. 2 -> BOOLEAN]

\* a.addsub(b, add, r_fmt, rnd, sat) on NarrowFix a and b
NarrowAddsub ==
    /\ pc = "idle"
    /\ \E a_fmt, b_fmt \in OneBitFormats, rnd \in FixRound, sat \in FixSaturate :
         \E a \in Pairs(a_fmt), b \in Pairs(b_fmt), add \in Flags,
            r_fmt \in ResultFormats(for_addsub(a_fmt, b_fmt)) :
            Computed("NarrowFix.addsub",
                     [a_fmt |-> a_fmt, a |-> a, b_fmt |-> b_fmt, b |-> b, add |-> add,
                      r_fmt |-> r_fmt, rnd |-> rnd, sat |-> sat],
                     for_addsub(a_fmt, b_fmt),
                     [i \in 1 .. 2 |->
                        NarrowFix_addsub(from_integer(a[i], a_fmt), a_fmt,
                                         from_integer(b[i], b_fmt), b_fmt,
                                         add[i], r_fmt, rnd, sat)])
    /\ pc' = "done"

\* a.addsub(b, add, r_fmt, rnd, sat) on WideFix a and b
WideAddsub ==
    /\ pc = "idle"
    /\ \E a_fmt, b_fmt \in OneBitFormats, rnd \in FixRound, sat \in FixSaturate :
         \E a \in Pairs(a_fmt), b \in Pairs(b_fmt), add \in Flags,
            r_fmt \in ResultFormats(for_addsub(a_fmt, b_fmt)) :
            Computed("WideFix.addsub",
                     [a_fmt |-> a_fmt, a |-> a, b_fmt |-> b_fmt, b |-> b, add |-> add,
                      r_fmt |-> r_fmt, rnd |-> rnd, sat |-> sat],
                     for_addsub(a_fmt, b_fmt),
                     WideFix_addsub(a, a_fmt, b, b_fmt, add, r_fmt, rnd, sat))
    /\ pc' = "done"

\* cl_fix_addsub(a, a_fmt, b, b_fmt, add, r_fmt, rnd, sat)
ClFixAddsub ==
    /\ pc = "idle"
    /\ \E a_fmt, b_fmt \in OneBitFormats, rnd \in FixRound, sat \in FixSaturate :
         \E a \in Pairs(a_fmt), b \in Pairs(b_fmt), add \in Flags,
            r_fmt \in ResultFormats(for_addsub(a_fmt, b_fmt)) :
            Computed("cl_fix_addsub",
                     [a_fmt |-> a_fmt, a |-> a, b_fmt |-> b_fmt, b |-> b, add |-> add,
                      r_fmt |-> r_fmt, rnd |-> rnd, sat |-> sat],
                     for_addsub(a_fmt, b_fmt),
                     [i \in 1 .. 2 |->
                        cl_fix_addsub(from_integer(a[i], a_fmt), a_fmt,
                                      from_integer(b[i], b_fmt), b_fmt,
                                      add[i], r_fmt, rnd, sat)])
    /\ pc' = "done"

---------------------------------------------------------------------------
(* Packing of wide data into 64-bit words (matlab_interface.py).  A Python
   int of a wide format does not fit the integers of the model checker, so
   it is kept as its two's complement image: the set bits of the positions
   below Top, and neg for the sign that all positions from Top on repeat.
   Its value is the sum of 2^i over bits, minus 2^Top when neg. *)

\* the bits of a word
UINT64 == 64

\* positions kept of a Python int: more than the widest format packed
Top == 4 * UINT64

PyInt(neg, bits) == [neg |-> neg, bits |-> bits]

\* x + 2**k
AddPowerOfTwo(x, k) ==
    LET free == {p \in k .. (Top - 1) : p \notin x.bits} IN
    IF free = {} THEN PyInt(FALSE, x.bits \ (k .. (Top - 1)))
    ELSE LET p == CHOOSE q \in free : \A o \in free : q <= o
         IN  PyInt(x.neg, (x.bits \ (k .. (p - 1))) \cup {p})

\* x - 2**k
SubPowerOfTwo(x, k) ==
    LET set == {p \in k .. (Top - 1) : p \in x.bits} IN
    IF set = {} THEN PyInt(TRUE, x.bits \cup (k .. (Top - 1)))
    ELSE LET p == CHOOSE q \in set : \A o \in set : q <= o
         IN  PyInt(x.neg, (x.bits \ {p}) \cup (k .. (p - 1)))

\* x % 2**64: a word, the set of its bits
Mod64(x) == {i \in x.bits : i < UINT64}

\* x >> 64
Shr64(x) ==
    PyInt(x.neg, {i - UINT64 : i \in {j \in x.bits : j >= UINT64}}
                 \cup (IF x.neg THEN (Top - UINT64) .. (Top - 1) ELSE {}))

\* to_uint64_array(data, fmt) on an ndarray data of Python ints: the packed
\* words, and the array of the caller after the call.  np.where makes a new
\* array for a signed format; for an unsigned one data is still the array
\* of the caller when data >>= 64 shifts it in place
to_uint64_array(data, fmt) ==
    IF ~cl_fix_is_wide(fmt) THEN AssertionError
    ELSE
    LET n_ints == (width(fmt) + UINT64 - 1) \div UINT64
        cast   == IF fmt.S = 1
                  THEN [e \in DOMAIN data |->
                          IF data[e].neg THEN AddPowerOfTwo(data[e], width(fmt)) ELSE data[e]]
                  ELSE data
        Populate[i \in 0 .. n_ints] ==
            IF i = 0 THEN [result |-> [e \in DOMAIN data |-> <<>>], data |-> cast]
            ELSE LET prev == Populate[i - 1] IN
                 [result |-> [e \in DOMAIN data |-> Append(prev.result[e], Mod64(prev.data[e]))],
                  data   |-> [e \in DOMAIN data |-> Shr64(prev.data[e])]]
        final  == Populate[n_ints]
    IN  [status |-> "ok", data |-> final.result,
         input |-> IF fmt.S = 1 THEN data ELSE final.data]

\* from_uint64_array without the step for the sign bit
from_uint64_array_unsigned(data, fmt) ==
    IF ~cl_fix_is_wide(fmt) THEN AssertionError
    ELSE [status |-> "ok",
          data |-> [e \in DOMAIN data |->
                      PyInt(FALSE, UNION {{i + UINT64 * (j - 1) : i \in data[e][j]} :
                                          j \in DOMAIN data[e]})],
          input |-> data]

\* from_uint64_array(data, fmt) on an ndarray of words: the unpacked
\* integers, and the array of the caller after the call
from_uint64_array(data, fmt) ==
    IF ~cl_fix_is_wide(fmt) THEN AssertionError
    ELSE
    LET result == [e \in DOMAIN data |->
                     PyInt(FALSE, UNION {{i + UINT64 * (j - 1) : i \in data[e][j]} :
                                         j \in DOMAIN data[e]})]
        signed == [e \in DOMAIN data |->
                     IF \E i \in result[e].bits : i >= fmt.I + fmt.F
                     THEN SubPowerOfTwo(result[e], fmt.I + fmt.F + 1)
                     ELSE result[e]]
    IN  [status |-> "ok", data |-> IF fmt.S = 1 THEN signed ELSE result, input |-> data]

\* the widths of the test of the packing
BIT_WIDTHS == {60, 65, 151}

\* formats of these widths, signed and unsigned, with negative I and with
\* negative F, and a narrow format
PackFormats ==
    {FixFormat(S, I, w - S - I) : <<S, I, w>> \in
        {t \in {0, 1} \X (-2 .. 153) \X BIT_WIDTHS : t[2] \in {-2, t[3] + 2}}}
    \cup {FixFormat(1, MAX_WIDTH - 1, 0)}

InPackRange(x, fmt) ==
    IF x.neg THEN fmt.S = 1 /\ ((fmt.I + fmt.F) .. (Top - 1)) \subseteq x.bits
    ELSE \A i \in x.bits : i < fmt.I + fmt.F

\* data of a format: 0, 1, the largest and the smallest value, the values
\* next to them and the values at the border of two words
PackValues(fmt) ==
    LET top == fmt.I + fmt.F IN
    {x \in {PyInt(FALSE, {}), PyInt(FALSE, {0}), PyInt(FALSE, 0 .. (top - 1)),
            PyInt(FALSE, {top - 1}), PyInt(FALSE, 0 .. (UINT64 - 1)), PyInt(FALSE, {UINT64}),
            PyInt(TRUE, 0 .. (Top - 1)), PyInt(TRUE, top .. (Top - 1)),
            PyInt(TRUE, {0} \cup (top .. (Top - 1))), PyInt(TRUE, UINT64 .. (Top - 1))} :
        InPackRange(x, fmt)}

PackArrays(fmt) == UNION {[1 .. n -> PackValues(fmt)] : n \in 1 .. MaxLen}

\* words handed to from_uint64_array
Words == {{}, {0}, {UINT64 - 1}, 0 .. (UINT64 - 1)}

WordArrays(fmt) ==
    [1 .. 1 -> [1 .. ((width(fmt) + UINT64 - 1) \div UINT64) -> Words]]

\* to_uint64_array(data, fmt) on an array of the caller
ToUint64Array ==
    /\ pc = "idle"
    /\ \E fmt \in PackFormats :
         \E data \in PackArrays(fmt) :
            /\ call' = [op |-> "to_uint64_array", data |-> data, fmt |-> fmt]
            /\ ret' = to_uint64_array(data, fmt)
    /\ pc' = "done"

\* from_uint64_array(data, fmt) on an array of the caller
FromUint64Array ==
    /\ pc = "idle"
    /\ \E fmt \in PackFormats :
         \E data \in WordArrays(fmt) :
            /\ call' = [op |-> "from_uint64_array", data |-> data, fmt |-> fmt]
            /\ ret' = from_uint64_array(data, fmt)
    /\ pc' = "done"

\* the test of the packing: from_uint64_array(to_uint64_array(in_data.copy(),
\* fmt).copy(), fmt)
PackUnpack ==
    /\ pc = "idle"
    /\ \E fmt \in PackFormats :
         \E data \in PackArrays(fmt) :
            LET packed == to_uint64_array(data, fmt) IN
            /\ call' = [op |-> "pack_unpack", data |-> data, fmt |-> fmt]
            /\ ret' = IF packed.status = "ok" THEN from_uint64_array(packed.data, fmt)
                      ELSE packed
    /\ pc' = "done"

---------------------------------------------------------------------------
(* Shifts by one amount and by an amount per element *)

np_min(shift) == CHOOSE n \in {shift[i] : i \in DOMAIN shift} : \A i \in DOMAIN shift : n <= shift[i]
np_max(shift) == CHOOSE n \in {shift[i] : i \in DOMAIN shift} : \A i \in DOMAIN shift : n >= shift[i]

\* NarrowFix.shift(shift, r_fmt, rnd, sat) with an array shift as long as
\* the data
NarrowFix_shift_each(data, fmt, shift, r_fmt, rnd, sat) ==
    LET mid_fmt == for_shift(fmt, np_min(shift), np_max(shift))
    IN  [i \in DOMAIN data |->
            NarrowFix_resize(FloatShift(data[i], shift[i]), mid_fmt,
                             OrDefault(r_fmt, mid_fmt), rnd, sat)]

\* cl_fix_shift(a, a_fmt, shift, r_fmt, rnd, sat) with an array shift, on
\* narrow formats: a << shift, then cl_fix_resize
cl_fix_shift_each(a, a_fmt, shift, r_fmt, rnd, sat) ==
    LET mid_fmt == for_shift(a_fmt, np_min(shift), np_max(shift))
        mid     == NarrowFix_shift_each(a, a_fmt, shift, None, "Trunc_s", "None_s")
    IN  [i \in DOMAIN a |-> cl_fix_resize(mid[i], mid_fmt, OrDefault(r_fmt, mid_fmt), rnd, sat)]

\* the ways WideFix.shift with an array shift ends: temp.resize(mid_fmt)._data[0]
\* indexes the 0-d data of temp, and the last statement gives the WideFix
\* mid to the WideFix constructor
WideFix_shift_each_status == {"IndexError", WideFix_init("WideFix")}

\* shift amounts per element of an array of two
ShiftPairs == [1 .. 2 -> ShiftRange]

Raised(status) == [status |-> status]

\* a.shift(shift, r_fmt, rnd, sat) on a NarrowFix a, shift a number
NarrowShift ==
    /\ pc = "idle"
    /\ \E a_fmt \in ArithFormats, shift \in ShiftRange, rnd \in FixRound, sat \in FixSaturate :
         \E a \in DataOf(a_fmt), r_fmt \in ResultFormats(for_shift(a_fmt, shift, shift)) :
            Computed("NarrowFix.shift",
                     [a_fmt |-> a_fmt, a |-> <<a>>, shift |-> <<shift>>, ndim |-> 0,
                      r_fmt |-> r_fmt, rnd |-> rnd, sat |-> sat],
                     for_shift(a_fmt, shift, shift),
                     <<NarrowFix_shift(from_integer(a, a_fmt), a_fmt, shift, r_fmt, rnd, sat)>>)
    /\ pc' = "done"

\* the same with an array shift
NarrowShiftEach ==
    /\ pc = "idle"
    /\ \E a_fmt \in OneBitFormats, shift \in ShiftPairs, rnd \in FixRound, sat \in FixSaturate :
         \E a \in Pairs(a_fmt), r_fmt \in ResultFormats(for_shift(a_fmt, np_min(shift), np_max(shift))) :
            Computed("NarrowFix.shift",
                     [a_fmt |-> a_fmt, a |-> a, shift |-> shift, ndim |-> 1,
                      r_fmt |-> r_fmt, rnd |-> rnd, sat |-> sat],
                     for_shift(a_fmt, np_min(shift), np_max(shift)),
                     NarrowFix_shift_each([i \in 1 .. 2 |-> from_integer(a[i], a_fmt)],
                                          a_fmt, shift, r_fmt, rnd, sat))
    /\ pc' = "done"

\* a.shift(shift, r_fmt, rnd, sat) on a WideFix a, shift a number
WideShift ==
    /\ pc = "idle"
    /\ \E a_fmt \in ArithFormats, shift \in ShiftRange, rnd \in FixRound, sat \in FixSaturate :
         \E a \in DataOf(a_fmt), r_fmt \in ResultFormats(for_shift(a_fmt, shift, shift)) :
            /\ call' = [op |-> "WideFix.shift", mid_fmt |-> for_shift(a_fmt, shift, shift),
                        a_fmt |-> a_fmt, a |-> <<a>>, shift |-> <<shift>>, ndim |-> 0,
                        r_fmt |-> r_fmt, rnd |-> rnd, sat |-> sat]
            /\ ret' = IF WideFix_shift_status(shift) = "ok"
                      THEN Value(<<WideFix_shift(a, a_fmt, shift, r_fmt, rnd, sat)>>)
                      ELSE Raised(WideFix_shift_status(shift))
    /\ pc' = "done"

\* the same with an array shift
WideShiftEach ==
    /\ pc = "idle"
    /\ \E a_fmt \in OneBitFormats, shift \in ShiftPairs, rnd \in FixRound, sat \in FixSaturate :
         \E a \in Pairs(a_fmt), r_fmt \in ResultFormats(for_shift(a_fmt, np_min(shift), np_max(shift))),
            status \in WideFix_shift_each_status :
            /\ call' = [op |-> "WideFix.shift",
                        mid_fmt |-> for_shift(a_fmt, np_min(shift), np_max(shift)),
                        a_fmt |-> a_fmt, a |-> a, shift |-> shift, ndim |-> 1,
                        r_fmt |-> r_fmt, rnd |-> rnd, sat |-> sat]
            /\ ret' = Raised(status)
    /\ pc' = "done"

\* cl_fix_shift(a, a_fmt, shift, r_fmt, rnd, sat), shift a number
ClFixShift ==
    /\ pc = "idle"
    /\ \E a_fmt \in ArithFormats, shift \in ShiftRange, rnd \in FixRound, sat \in FixSaturate :
         \E a \in DataOf(a_fmt), r_fmt \in ResultFormats(for_shift(a_fmt, shift, shift)) :
            /\ call' = [op |-> "cl_fix_shift", mid_fmt |-> for_shift(a_fmt, shift, shift),
                        a_fmt |-> a_fmt, a |-> <<a>>, shift |-> <<shift>>, ndim |-> 0,
                        r_fmt |-> r_fmt, rnd |-> rnd, sat |-> sat]
            /\ ret' = IF cl_fix_shift_status(a_fmt, shift) = "ok"
                      THEN Value(<<cl_fix_shift(from_integer(a, a_fmt), a_fmt, shift, r_fmt, rnd, sat)>>)
                      ELSE Raised(cl_fix_shift_status(a_fmt, shift))
    /\ pc' = "done"

\* the same with an array shift
ClFixShiftEach ==
    /\ pc = "idle"
    /\ \E a_fmt \in OneBitFormats, shift \in ShiftPairs, rnd \in FixRound, sat \in FixSaturate :
         \E a \in Pairs(a_fmt), r_fmt \in ResultFormats(for_shift(a_fmt, np_min(shift), np_max(shift))) :
            Computed("cl_fix_shift",
                     [a_fmt |-> a_fmt, a |-> a, shift |-> shift, ndim |-> 1,
                      r_fmt |-> r_fmt, rnd |-> rnd, sat |-> sat],
                     for_shift(a_fmt, np_min(shift), np_max(shift)),
                     cl_fix_shift_each([i \in 1 .. 2 |-> from_integer(a[i], a_fmt)],
                                       a_fmt, shift, r_fmt, rnd, sat))
    /\ pc' = "done"

---------------------------------------------------------------------------
(* The representation of the data that the cl_fix_* functions take and
   return: "float" for the float64 data of a NarrowFix, "int" for the Python
   int data of a WideFix.  The operators follow the branches of en_cl_fix.py
   on cl_fix_is_wide; a format wider than MAX_WIDTH has data too large to
   enumerate, so the data are left out and their representation is kept. *)

\* _data of a WideFix and of a NarrowFix
DataOfClass(class) == IF class = "WideFix" THEN "int" ELSE "float"

\* the object a function makes of data a that it takes for data of a_fmt:
\* WideFix(a, a_fmt) asserts the object dtype of Python ints, NarrowFix(a,
\* a_fmt) takes ints for floats
Wrapped(a, a_fmt) ==
    IF cl_fix_is_wide(a_fmt)
    THEN IF a = "int" THEN "ok" ELSE "AssertionError"
    ELSE IF a = "float" THEN "ok" ELSE "int read as float"

Dispatch(status, data, class, operands) ==
    [status |-> status, data |-> data, class |-> class, operands |-> operands]

\* cl_fix_round(a, a_fmt, r_fmt, rnd): the representation of r._data
cl_fix_round_repr(a, a_fmt, r_fmt) ==
    LET a_wide == cl_fix_is_wide(a_fmt)
        r_wide == cl_fix_is_wide(r_fmt)
    IN  IF a_wide \/ r_wide
        THEN Dispatch(Wrapped(a, a_fmt),
                      IF ~r_wide THEN DataOfClass("NarrowFix") ELSE DataOfClass("WideFix"),
                      "WideFix", <<"WideFix">>)
        ELSE Dispatch(Wrapped(a, a_fmt), DataOfClass("NarrowFix"), "NarrowFix", <<"NarrowFix">>)

\* cl_fix_saturate(a, a_fmt, r_fmt, sat): the representation of r._data
cl_fix_saturate_repr(a, a_fmt, r_fmt) ==
    LET a_wide == cl_fix_is_wide(a_fmt)
        r_wide == cl_fix_is_wide(r_fmt)
    IN  IF a_wide \/ r_wide
        THEN Dispatch(Wrapped(a, a_fmt),
                      IF ~r_wide THEN DataOfClass("NarrowFix") ELSE DataOfClass("WideFix"),
                      "WideFix", <<"WideFix">>)
        ELSE Dispatch(Wrapped(a, a_fmt), DataOfClass("NarrowFix"), "NarrowFix", <<"NarrowFix">>)

\* cl_fix_resize(a, a_fmt, r_fmt, rnd, sat): cl_fix_round, then
\* cl_fix_saturate of what it returned; class and operands tell what
\* cl_fix_round made of a
cl_fix_resize_repr(a, a_fmt, r_fmt, rnd) ==
    LET rounded_fmt == for_round(a_fmt, r_fmt.F, rnd)
        rounded     == cl_fix_round_repr(a, a_fmt, rounded_fmt)
        result      == cl_fix_saturate_repr(rounded.data, rounded_fmt, r_fmt)
    IN  IF rounded.status # "ok" THEN rounded
        ELSE Dispatch(result.status, result.data, rounded.class, rounded.operands)

\* the body shared by cl_fix_abs, cl_fix_neg, cl_fix_add, cl_fix_sub and
\* cl_fix_mult: the operands (formats fmts) are made WideFix when one of them
\* or mid_fmt is wide, NarrowFix otherwise; mid._data is resized
cl_fix_op_repr(fmts, mid_fmt, r_fmt, rnd) ==
    LET wide  == (\E i \in DOMAIN fmts : cl_fix_is_wide(fmts[i])) \/ cl_fix_is_wide(mid_fmt)
        class == IF wide THEN "WideFix" ELSE "NarrowFix"
        r     == cl_fix_resize_repr(DataOfClass(class), mid_fmt, OrDefault(r_fmt, mid_fmt), rnd)
    IN  Dispatch(r.status, r.data, class, [i \in DOMAIN fmts |-> class])

cl_fix_abs_repr(a_fmt, r_fmt, rnd) == cl_fix_op_repr(<<a_fmt>>, for_abs(a_fmt), r_fmt, rnd)

cl_fix_neg_repr(a_fmt, r_fmt, rnd) == cl_fix_op_repr(<<a_fmt>>, for_neg(a_fmt), r_fmt, rnd)

cl_fix_add_repr(a_fmt, b_fmt, r_fmt, rnd) ==
    cl_fix_op_repr(<<a_fmt, b_fmt>>, for_add(a_fmt, b_fmt), r_fmt, rnd)

cl_fix_sub_repr(a_fmt, b_fmt, r_fmt, rnd) ==
    cl_fix_op_repr(<<a_fmt, b_fmt>>, for_sub(a_fmt, b_fmt), r_fmt, rnd)

cl_fix_mult_repr(a_fmt, b_fmt, r_fmt, rnd) ==
    cl_fix_op_repr(<<a_fmt, b_fmt>>, for_mult(a_fmt, b_fmt), r_fmt, rnd)

\* cl_fix_addsub: np.where(add, radd, rsub) of cl_fix_add and cl_fix_sub,
\* each called with the r_fmt of the caller
cl_fix_addsub_repr(a_fmt, b_fmt, add, r_fmt, rnd) ==
    IF add THEN cl_fix_add_repr(a_fmt, b_fmt, r_fmt, rnd)
    ELSE cl_fix_sub_repr(a_fmt, b_fmt, r_fmt, rnd)

\* cl_fix_shift: a << shift is WideFix.shift on the wide path
cl_fix_shift_repr(a_fmt, shift, r_fmt, rnd) ==
    LET r == cl_fix_op_repr(<<a_fmt>>, for_shift(a_fmt, shift, shift), r_fmt, rnd)
    IN  IF r.class = "WideFix" /\ WideFix_shift_status(shift) # "ok"
        THEN Dispatch(WideFix_shift_status(shift), "none", r.class, r.operands)
        ELSE r

\* formats on both sides of the limit of the narrow representation, and
\* two small ones
LimitFormats ==
    {FixFormat(S, I, F) : <<S, I, F>> \in
        {0, 1} \X ((MAX_WIDTH - 2) .. (MAX_WIDTH + 1)) \X {0, 1}}
    \cup {FixFormat(0, 1, 0), FixFormat(1, 0, 1)}

\* result formats given to a call: none, or one at the limit
LimitResults == {None} \cup {<<r_fmt>> : r_fmt \in LimitFormats}

\* a call of a cl_fix_* function on data in the representation of their
\* formats
Dispatched(name, args, mid_fmt, r_fmt, r) ==
    /\ call' = [op |-> name, mid_fmt |-> mid_fmt, r_fmt |-> r_fmt] @@ args
    /\ ret' = r

DispatchRound ==
    /\ pc = "idle"
    /\ \E a_fmt \in LimitFormats, rnd \in FixRound :
         \E rFracBits \in (a_fmt.F - 1) .. (a_fmt.F + 1) :
            LET r_fmt == for_round(a_fmt, rFracBits, rnd) IN
            Dispatched("cl_fix_round", [fmts |-> <<a_fmt>>, rnd |-> rnd], r_fmt, <<r_fmt>>,
                       cl_fix_round_repr(DataOfClass(IF cl_fix_is_wide(a_fmt) THEN "WideFix" ELSE "NarrowFix"),
                                         a_fmt, r_fmt))
    /\ pc' = "done"

DispatchSaturate ==
    /\ pc = "idle"
    /\ \E a_fmt \in LimitFormats, r_fmt \in LimitFormats, rnd \in FixRound :
         /\ r_fmt.F = a_fmt.F
         /\ Dispatched("cl_fix_saturate", [fmts |-> <<a_fmt>>, rnd |-> rnd], r_fmt, <<r_fmt>>,
                       cl_fix_saturate_repr(DataOfClass(IF cl_fix_is_wide(a_fmt) THEN "WideFix" ELSE "NarrowFix"),
                                            a_fmt, r_fmt))
    /\ pc' = "done"

DispatchResize ==
    /\ pc = "idle"
    /\ \E a_fmt \in LimitFormats, r_fmt \in LimitFormats, rnd \in FixRound :
         Dispatched("cl_fix_resize", [fmts |-> <<a_fmt>>, rnd |-> rnd],
                    for_round(a_fmt, r_fmt.F, rnd), <<r_fmt>>,
                    cl_fix_resize_repr(DataOfClass(IF cl_fix_is_wide(a_fmt) THEN "WideFix" ELSE "NarrowFix"),
                                       a_fmt, r_fmt, rnd))
    /\ pc' = "done"

DispatchAbs ==
    /\ pc = "idle"
    /\ \E a_fmt \in LimitFormats, r_fmt \in LimitResults, rnd \in FixRound :
         Dispatched("cl_fix_abs", [fmts |-> <<a_fmt>>, rnd |-> rnd], for_abs(a_fmt), r_fmt,
                    cl_fix_abs_repr(a_fmt, r_fmt, rnd))
    /\ pc' = "done"

DispatchNeg ==
    /\ pc = "idle"
    /\ \E a_fmt \in LimitFormats, r_fmt \in LimitResults, rnd \in FixRound :
         Dispatched("cl_fix_neg", [fmts |-> <<a_fmt>>, rnd |-> rnd], for_neg(a_fmt), r_fmt,
                    cl_fix_neg_repr(a_fmt, r_fmt, rnd))
    /\ pc' = "done"

DispatchAdd ==
    /\ pc = "idle"
    /\ \E a_fmt \in LimitFormats, b_fmt \in LimitFormats, r_fmt \in LimitResults, rnd \in FixRound :
         Dispatched("cl_fix_add", [fmts |-> <<a_fmt, b_fmt>>, rnd |-> rnd],
                    for_add(a_fmt, b_fmt), r_fmt, cl_fix_add_repr(a_fmt, b_fmt, r_fmt, rnd))
    /\ pc' = "done"

DispatchSub ==
    /\ pc = "idle"
    /\ \E a_fmt \in LimitFormats, b_fmt \in LimitFormats, r_fmt \in LimitResults, rnd \in FixRound :
         Dispatched("cl_fix_sub", [fmts |-> <<a_fmt, b_fmt>>, rnd |-> rnd],
                    for_sub(a_fmt, b_fmt), r_fmt, cl_fix_sub_repr(a_fmt, b_fmt, r_fmt, rnd))
    /\ pc' = "done"

DispatchMult ==
    /\ pc = "idle"
    /\ \E a_fmt \in LimitFormats, b_fmt \in LimitFormats, r_fmt \in LimitResults, rnd \in FixRound :
         Dispatched("cl_fix_mult", [fmts |-> <<a_fmt, b_fmt>>, rnd |-> rnd],
                    for_mult(a_fmt, b_fmt), r_fmt, cl_fix_mult_repr(a_fmt, b_fmt, r_fmt, rnd))
    /\ pc' = "done"

\* cl_fix_addsub with one flag add; the result format of an addsub without
\* r_fmt is for_addsub, the intermediate format of the cl_fix_add or
\* cl_fix_sub that computes the element is delegate_fmt
DispatchAddsub ==
    /\ pc = "idle"
    /\ \E a_fmt \in LimitFormats, b_fmt \in LimitFormats, r_fmt \in LimitResults, rnd \in FixRound,
          add \in BOOLEAN :
         Dispatched("cl_fix_addsub",
                    [fmts |-> <<a_fmt, b_fmt>>, rnd |-> rnd, add |-> add,
                     delegate_fmt |-> IF add THEN for_add(a_fmt, b_fmt) ELSE for_sub(a_fmt, b_fmt)],
                    for_addsub(a_fmt, b_fmt), r_fmt,
                    cl_fix_addsub_repr(a_fmt, b_fmt, add, r_fmt, rnd))
    /\ pc' = "done"

DispatchShift ==
    /\ pc = "idle"
    /\ \E a_fmt \in LimitFormats, shift \in ShiftRange, r_fmt \in LimitResults, rnd \in FixRound :
         Dispatched("cl_fix_shift", [fmts |-> <<a_fmt>>, rnd |-> rnd, shift |-> shift],
                    for_shift(a_fmt, shift, shift), r_fmt,
                    cl_fix_shift_repr(a_fmt, shift, r_fmt, rnd))
    /\ pc' = "done"

---------------------------------------------------------------------------
(* Sequences of operations: every operation takes the value the one before
   it returned, an object of class WideFix or NarrowFix *)

\* the formats of the values an operation of a sequence is applied to; a
\* value returned in a wider format ends the sequence
ChainFormats ==
    {fmt \in OperandFormats : /\ width(fmt) <= MaxWidth - 2
                              /\ fmt.I \in -1 .. 1
                              /\ fmt.F \in -1 .. 1}

\* second operands: one-bit values
ChainOperands == {fmt \in ChainFormats : width(fmt) = 1}

FixClasses == {"WideFix", "NarrowFix"}

\* the data of an object of a class for the integer a of format fmt
DataIn(class, a, fmt) == IF class = "WideFix" THEN a ELSE from_integer(a, fmt)

Chained(class, fmt, data) == [status |-> "ok", class |-> class, fmt |-> fmt, data |-> data]

\* the operation last applied
Chain(last) == call' = [op |-> "chain", last |-> last]

\* a value of a sequence that an operation can be applied to
Chaining ==
    /\ pc = "done"
    /\ call.op = "chain"
    /\ ret.status = "ok"
    /\ ret.fmt \in ChainFormats

\* a WideFix or NarrowFix of a value of its format
Start ==
    /\ pc = "idle"
    /\ \E class \in FixClasses, fmt \in ChainFormats :
         \E a \in DataOf(fmt) :
            /\ Chain("start")
            /\ ret' = Chained(class, fmt, DataIn(class, a, fmt))
    /\ pc' = "done"

ThenRound ==
    /\ Chaining
    /\ \E rFracBits \in FracRange, rnd \in FixRound :
         LET r_fmt == for_round(ret.fmt, rFracBits, rnd) IN
         /\ Chain("round")
         /\ ret' = Chained(ret.class, r_fmt,
                           IF ret.class = "WideFix"
                           THEN WideFix_round(ret.data, ret.fmt, r_fmt, rnd)
                           ELSE NarrowFix_round(ret.data, ret.fmt, r_fmt, rnd))
    /\ pc' = "done"

ThenSaturate ==
    /\ Chaining
    /\ \E r_fmt \in SameFrac(ret.fmt), sat \in FixSaturate :
         /\ Chain("saturate")
         /\ ret' = Chained(ret.class, r_fmt,
                           IF ret.class = "WideFix"
                           THEN WideFix_saturate(ret.data, r_fmt, sat)
                           ELSE NarrowFix_saturate(ret.data, ret.fmt, r_fmt, sat))
    /\ pc' = "done"

ThenResize ==
    /\ Chaining
    /\ \E r_fmt \in ResultFormats(ret.fmt) \ {None}, rnd \in FixRound, sat \in FixSaturate :
         /\ Chain("resize")
         /\ ret' = Chained(ret.class, r_fmt[1],
                           IF ret.class = "WideFix"
                           THEN WideFix_resize(ret.data, ret.fmt, r_fmt[1], rnd, sat)
                           ELSE NarrowFix_resize(ret.data, ret.fmt, r_fmt[1], rnd, sat))
    /\ pc' = "done"

ThenNeg ==
    /\ Chaining
    /\ \E r_fmt \in ResultFormats(for_neg(ret.fmt)), rnd \in FixRound, sat \in FixSaturate :
         /\ Chain("neg")
         /\ ret' = Chained(ret.class, OrDefault(r_fmt, for_neg(ret.fmt)),
                           IF ret.class = "WideFix"
                           THEN WideFix_neg(ret.data, ret.fmt, r_fmt, rnd, sat)
                           ELSE NarrowFix_neg(ret.data, ret.fmt, r_fmt, rnd, sat))
    /\ pc' = "done"

ThenAbs ==
    /\ Chaining
    /\ \E r_fmt \in ResultFormats(for_abs(ret.fmt)), rnd \in FixRound, sat \in FixSaturate :
         /\ Chain("abs")
         /\ ret' = Chained(ret.class, OrDefault(r_fmt, for_abs(ret.fmt)),
                           IF ret.class = "WideFix"
                           THEN WideFix_abs(ret.data, ret.fmt, r_fmt, rnd, sat)
                           ELSE NarrowFix_abs(ret.data, ret.fmt, r_fmt, rnd, sat))
    /\ pc' = "done"

ThenAdd ==
    /\ Chaining
    /\ \E b_fmt \in ChainOperands, rnd \in FixRound, sat \in FixSaturate :
         \E b \in DataOf(b_fmt), r_fmt \in ResultFormats(for_add(ret.fmt, b_fmt)) :
            /\ Chain("add")
            /\ ret' = Chained(ret.class, OrDefault(r_fmt, for_add(ret.fmt, b_fmt)),
                              IF ret.class = "WideFix"
                              THEN WideFix_add(ret.data, ret.fmt, b, b_fmt, r_fmt, rnd, sat)
                              ELSE NarrowFix_add(ret.data, ret.fmt, from_integer(b, b_fmt), b_fmt,
                                                 r_fmt, rnd, sat))
    /\ pc' = "done"

ThenSub ==
    /\ Chaining
    /\ \E b_fmt \in ChainOperands, rnd \in FixRound, sat \in FixSaturate :
         \E b \in DataOf(b_fmt), r_fmt \in ResultFormats(for_sub(ret.fmt, b_fmt)) :
            /\ Chain("sub")
            /\ ret' = Chained(ret.class, OrDefault(r_fmt, for_sub(ret.fmt, b_fmt)),
                              IF ret.class = "WideFix"
                              THEN WideFix_sub(ret.data, ret.fmt, b, b_fmt, r_fmt, rnd, sat)
                              ELSE NarrowFix_sub(ret.data, ret.fmt, from_integer(b, b_fmt), b_fmt,
                                                 r_fmt, rnd, sat))
    /\ pc' = "done"

ThenMult ==
    /\ Chaining
    /\ \E b_fmt \in ChainOperands, rnd \in FixRound, sat \in FixSaturate :
         \E b \in DataOf(b_fmt), r_fmt \in ResultFormats(for_mult(ret.fmt, b_fmt)) :
            /\ Chain("mult")
            /\ ret' = Chained(ret.class, OrDefault(r_fmt, for_mult(ret.fmt, b_fmt)),
                              IF ret.class = "WideFix"
                              THEN WideFix_mult(ret.data, ret.fmt, b, b_fmt, r_fmt, rnd, sat)
                              ELSE NarrowFix_mult(ret.data, ret.fmt, from_integer(b, b_fmt), b_fmt,
                                                  r_fmt, rnd, sat))
    /\ pc' = "done"

\* WideFix.shift returns no value
ThenShift ==
    /\ Chaining
    /\ \E shift \in ShiftRange, rnd \in FixRound, sat \in FixSaturate :
         \E r_fmt \in ResultFormats(for_shift(ret.fmt, shift, shift)) :
            /\ Chain("shift")
            /\ ret' = IF ret.class = "WideFix"
                      THEN IF WideFix_shift_status(shift) = "ok"
                           THEN Chained(ret.class, OrDefault(r_fmt, for_shift(ret.fmt, shift, shift)),
                                        WideFix_shift(ret.data, ret.fmt, shift, r_fmt, rnd, sat))
                           ELSE [status |-> WideFix_shift_status(shift), class |-> ret.class]
                      ELSE Chained(ret.class, OrDefault(r_fmt, for_shift(ret.fmt, shift, shift)),
                                   NarrowFix_shift(ret.data, ret.fmt, shift, r_fmt, rnd, sat))
    /\ pc' = "done"

\* the caller takes the result
Return ==
    /\ pc = "done"
    /\ pc' = "idle"
    /\ call' = NoCall
    /\ ret' = NoCall

Init ==
    /\ pc = "idle"
    /\ call = NoCall
    /\ ret = NoCall

NextFmt == ForAdd \/ ForSub \/ ForAddsub \/ ForMult \/ ForNeg \/ ForAbs \/ ForShift \/ Return

SpecFmt == Init /\ [][NextFmt]_vars

NextRound == WideRound \/ NarrowRound \/ Return

SpecRound == Init /\ [][NextRound]_vars

NextResize ==
    WideSaturate \/ NarrowSaturate \/ WideResize \/ ClFixResize \/ ResizeAgain \/ Return

SpecResize == Init /\ [][NextResize]_vars

NextCompare ==
    \/ CompareRound \/ CompareSaturate \/ CompareResize \/ CompareAdd \/ CompareSub
    \/ CompareAbs \/ CompareShift \/ Return

SpecCompare == Init /\ [][NextCompare]_vars

NextReal == NarrowFromReal \/ WideFromFloat \/ ClFixFromReal \/ Return

SpecReal == Init /\ [][NextReal]_vars

NextWarn == WideSaturateBatch \/ NarrowSaturateBatch \/ PkgResize \/ Return

SpecWarn == Init /\ [][NextWarn]_vars

NextFormat == Construct \/ Return

SpecFormat == Init /\ [][NextFormat]_vars

NextAbs == WideAbs \/ NarrowAbs \/ ClFixAbs \/ Return

SpecAbs == Init /\ [][NextAbs]_vars

NextAddsub == NarrowAddsub \/ WideAddsub \/ ClFixAddsub \/ Return

SpecAddsub == Init /\ [][NextAddsub]_vars

NextPack == ToUint64Array \/ FromUint64Array \/ PackUnpack \/ Return

SpecPack == Init /\ [][NextPack]_vars

NextForRound == ForRound \/ Return

SpecForRound == Init /\ [][NextForRound]_vars

NextShift ==
    \/ NarrowShift \/ NarrowShiftEach \/ WideShift \/ WideShiftEach
    \/ ClFixShift \/ ClFixShiftEach \/ Return

SpecShift == Init /\ [][NextShift]_vars

NextDispatch ==
    \/ DispatchRound \/ DispatchSaturate \/ DispatchResize \/ DispatchAbs \/ DispatchNeg
    \/ DispatchAdd \/ DispatchSub \/ DispatchMult \/ DispatchAddsub \/ DispatchShift \/ Return

SpecDispatch == Init /\ [][NextDispatch]_vars

NextChain ==
    \/ Start \/ ThenRound \/ ThenSaturate \/ ThenResize \/ ThenNeg \/ ThenAbs
    \/ ThenAdd \/ ThenSub \/ ThenMult \/ ThenShift \/ Return

SpecChain == Init /\ [][NextChain]_vars

NextClosure ==
    \/ ForAdd \/ ForSub \/ ForAddsub \/ ForMult \/ ForNeg \/ ForAbs \/ ForShift
    \/ ForRound \/ ForUnion \/ Return

SpecClosure == Init /\ [][NextClosure]_vars

NextArith ==
    \/ WideNeg \/ WideAdd \/ WideSub \/ WideMult
    \/ ClFixNeg \/ ClFixAdd \/ ClFixSub \/ ClFixMult \/ Return

SpecArith == Init /\ [][NextArith]_vars

NextOrder == Eq \/ Ne \/ Lt \/ Le \/ Gt \/ Ge \/ Return

SpecOrder == Init /\ [][NextOrder]_vars

NextInteger == FromInteger \/ FromIntegerArray \/ ToInteger \/ Return

SpecInteger == Init /\ [][NextInteger]_vars

---------------------------------------------------------------------------
(* Properties of the format derivations *)

\* a real number x is exactly representable in fmt
InFormat(x, fmt) ==
    /\ min_value(fmt) <= x
    /\ x <= max_value(fmt)
    /\ x % Pow2R(-fmt.F) = 0

SetMax(S) == CHOOSE x \in S : \A y \in S : y <= x
SetMin(S) == CHOOSE x \in S : \A y \in S : x <= y

\* fmt with one integer bit removed (same S and F)
Smaller(fmt) == [S |-> fmt.S, I |-> fmt.I - 1, F |-> fmt.F]

\* the extreme data of a format
Extremes(fmt) == {MinValue(fmt), MaxValue(fmt)}

AbsInt(x) == IF x < 0 THEN -x ELSE x

\* the results (real numbers) of the operation behind a derivation on the
\* extreme operands
WorstCase(c) ==
    CASE c.op = "for_add" ->
           {to_real(x, c.a_fmt) + to_real(y, c.b_fmt) :
                x \in Extremes(c.a_fmt), y \in Extremes(c.b_fmt)}
      [] c.op = "for_sub" ->
           {to_real(x, c.a_fmt) - to_real(y, c.b_fmt) :
                x \in Extremes(c.a_fmt), y \in Extremes(c.b_fmt)}
      [] c.op = "for_addsub" ->
           {to_real(x, c.a_fmt) + to_real(y, c.b_fmt) :
                x \in Extremes(c.a_fmt), y \in Extremes(c.b_fmt)}
           \cup {to_real(x, c.a_fmt) - to_real(y, c.b_fmt) :
                x \in Extremes(c.a_fmt), y \in Extremes(c.b_fmt)}
      [] c.op = "for_mult" ->
           {IntMul(x * y, -(c.a_fmt.F + c.b_fmt.F)) :
                x \in Extremes(c.a_fmt), y \in Extremes(c.b_fmt)}
      [] c.op = "for_neg" ->
           {-to_real(x, c.a_fmt) : x \in Extremes(c.a_fmt)}
      [] c.op = "for_abs" ->
           {to_real(AbsInt(x), c.a_fmt) : x \in Extremes(c.a_fmt) \cup {0}}
      [] c.op = "for_shift" ->
           {IntMul(x, n - c.a_fmt.F) :
                x \in Extremes(c.a_fmt), n \in {c.minShift, c.maxShift}}

\* fmt without one integer bit does not hold every result in R
Tight(fmt, R) ==
    \/ SetMax(R) > max_value(Smaller(fmt))
    \/ SetMin(R) < min_value(Smaller(fmt))

\* C1: every sum x + y of a value x of format a and a value y of format b is
\* exactly representable in for_add(a, b): it lies within the format's
\* [min, max] and is a multiple of 2^-max(a.F, b.F).
C1_AddSufficient ==
    (pc = "done" /\ call.op = "for_add") =>
        /\ ret.fmt.F = Max(call.a_fmt.F, call.b_fmt.F)
        /\ InFormat(to_real(call.a, call.a_fmt) + to_real(call.b, call.b_fmt), ret.fmt)

\* 2.5 + 2.5 = 5.0 of two (0,2,1) operands, held by (0,3,1)
C1_Witness ==
    /\ pc = "done" /\ call.op = "for_add"
    /\ call.a_fmt = FixFormat(0, 2, 1) /\ call.b_fmt = FixFormat(0, 2, 1)
    /\ call.a = 5 /\ call.b = 5
    /\ ret.fmt = FixFormat(0, 3, 1)

\* C2: every difference x - y of a value x of format a and a value y of
\* format b is exactly representable in for_sub(a, b), the special cases of
\* an unsigned a with a 1-bit signed b or with b.I = -b.F + 1 included.
C2_SubSufficient ==
    (pc = "done" /\ call.op = "for_sub") =>
        /\ ret.fmt.F = Max(call.a_fmt.F, call.b_fmt.F)
        /\ InFormat(to_real(call.a, call.a_fmt) - to_real(call.b, call.b_fmt), ret.fmt)

\* unsigned a minus the most negative value of a 1-bit signed b: 1 - (-1) = 2,
\* and the derived format is unsigned
C2_Witness ==
    /\ pc = "done" /\ call.op = "for_sub"
    /\ call.a_fmt = FixFormat(0, 1, 0) /\ call.b_fmt = FixFormat(1, 0, 0)
    /\ call.a = 1 /\ call.b = -1
    /\ ret.fmt = FixFormat(0, 2, 0)

\* C3: every product x * y of a value x of format a and a value y of format b
\* is exactly representable in for_mult(a, b): within [min, max] and a
\* multiple of 2^-(a.F + b.F).
C3_MultSufficient ==
    (pc = "done" /\ call.op = "for_mult") =>
        /\ ret.fmt.F = call.a_fmt.F + call.b_fmt.F
        /\ InFormat(IntMul(call.a * call.b, -(call.a_fmt.F + call.b_fmt.F)), ret.fmt)

\* most negative times most negative of two signed operands: (-2) * (-2) = 4
C3_Witness ==
    /\ pc = "done" /\ call.op = "for_mult"
    /\ call.a_fmt = FixFormat(1, 1, 1) /\ call.b_fmt = FixFormat(1, 1, 1)
    /\ call.a = -4 /\ call.b = -4
    /\ ret.fmt = FixFormat(1, 3, 2)

\* C4: the format derived by for_add, for_sub, for_addsub or for_abs, with
\* one integer bit removed, does not hold the worst-case maximum or minimum
\* of the operation; the same for for_mult, for_neg and for_shift whenever
\* the derived format has I + F > 0.
C4_Tight ==
    pc = "done" =>
        /\ call.op \in {"for_add", "for_sub", "for_addsub", "for_abs"} =>
               Tight(ret.fmt, WorstCase(call))
        /\ (call.op \in {"for_mult", "for_neg", "for_shift"} /\ ret.fmt.I + ret.fmt.F > 0) =>
               Tight(ret.fmt, WorstCase(call))

\* a product format with I + F > 0: (1,1,1) * (0,2,0) needs all of (1,3,1)
C4_Witness ==
    /\ pc = "done" /\ call.op = "for_mult"
    /\ call.a_fmt = FixFormat(1, 1, 1) /\ call.b_fmt = FixFormat(0, 2, 0)
    /\ ret.fmt = FixFormat(1, 3, 1)
    /\ Tight(ret.fmt, WorstCase(call))

---------------------------------------------------------------------------
(* Properties of rounding *)

WideOps == {"WideFix.round", "WideFix.saturate", "WideFix.resize"}

\* the real number an operand or a result stands for
RealOf(op, data, fmt) == IF op \in WideOps THEN to_real(data, fmt) ELSE data

Rounded == pc = "done" /\ call.op \in {"WideFix.round", "NarrowFix.round"}

\* floor and ceiling of a real x to the multiples of 2^-n
FloorTo(x, n) == IntMul(FloorMul(x, n), -n)
CeilTo(x, n)  == -FloorTo(-x, n)

RefNonSymPos(x, n) == FloorTo(x + Pow2R(-n - 1), n)
RefNonSymNeg(x, n) == CeilTo(x - Pow2R(-n - 1), n)

\* the reference rounding of the five modes that are not convergent
RefRound(x, n, rnd) ==
    CASE rnd = "Trunc_s"     -> FloorTo(x, n)
      [] rnd = "NonSymPos_s" -> RefNonSymPos(x, n)
      [] rnd = "NonSymNeg_s" -> RefNonSymNeg(x, n)
      [] rnd = "SymInf_s"    -> IF x >= 0 THEN RefNonSymPos(x, n) ELSE RefNonSymNeg(x, n)
      [] rnd = "SymZero_s"   -> IF x >= 0 THEN RefNonSymNeg(x, n) ELSE RefNonSymPos(x, n)

\* C5: rounding any value of a format a of width >= 1 to r fraction bits, in
\* any of the seven modes, gives a value within [min, max] of
\* for_round(a, r, mode), which has the sign bit of a and r fraction bits.
C5_RoundInFormat ==
    Rounded =>
        /\ ret.fmt.S = call.a_fmt.S
        /\ ret.fmt.F = call.r_fmt.F
        /\ width(ret.fmt) >= 1
        /\ InFormat(RealOf(call.op, ret.data, ret.fmt), ret.fmt)

\* 3.5 of (0,2,1) rounds half-up to 4.0, which needs the extra integer bit
C5_Witness ==
    /\ Rounded /\ call.op = "WideFix.round"
    /\ call.a_fmt = FixFormat(0, 2, 1) /\ call.a = 7 /\ call.rnd = "NonSymPos_s"
    /\ ret.fmt = FixFormat(0, 3, 0) /\ ret.data = 4

AbsR(x) == IF x < 0 THEN -x ELSE x

\* the results the unit tests expect of -0.5, 0.5, 1.5, -1.5 (F = 1 to F = 0)
ConvExample(rnd, x2) ==
    CASE rnd = "ConvEven_s" -> (CASE x2 = -1 -> 0  [] x2 = 1 -> 0 [] x2 = 3 -> 2 [] x2 = -3 -> -2)
      [] rnd = "ConvOdd_s"  -> (CASE x2 = -1 -> -1 [] x2 = 1 -> 1 [] x2 = 3 -> 1 [] x2 = -3 -> -1)

---------------------------------------------------------------------------
(* Properties of saturation and resizing *)

Saturated == pc = "done" /\ call.op \in {"WideFix.saturate", "NarrowFix.saturate"}

Resized == pc = "done" /\ call.op \in {"WideFix.resize", "cl_fix_resize"}

\* the raw integer of a real x that is a multiple of 2^-fmt.F
RawOf(op, data, fmt) == IF op \in WideOps THEN data ELSE FloorMul(data, fmt.F)

C9_Clamp ==
    /\ (Saturated /\ call.sat \in {"Sat_s", "SatWarn_s"}) =>
          LET v  == RealOf(call.op, call.a, call.a_fmt)
              w  == RealOf(call.op, ret.data, ret.fmt)
              hi == max_value(call.r_fmt)
              lo == min_value(call.r_fmt)
          IN  /\ ret.fmt = call.r_fmt
              /\ call.r_fmt.S = 0 => lo = 0
              /\ w = (IF v > hi THEN hi ELSE IF v < lo THEN lo ELSE v)
    /\ (/\ Resized /\ ~call.again
        /\ call.a_fmt = FixFormat(1, 3, 1) /\ call.r_fmt = FixFormat(1, 3, 0)
        /\ RealOf(call.op, call.a, call.a_fmt) = IntMul(15, -1)
        /\ call.rnd = "NonSymPos_s") =>
          /\ ret.status = "ok"
          /\ RealOf(call.op, ret.data, ret.fmt) =
                 (IF call.sat \in {"None_s", "Warn_s"} THEN IntMul(-8, 0) ELSE IntMul(7, 0))

\* 7.5 of (1,3,1) resized to (1,3,0), half-up, clamped: 7
C9_Witness ==
    /\ Resized /\ call.op = "WideFix.resize" /\ ~call.again
    /\ call.a_fmt = FixFormat(1, 3, 1) /\ call.a = 15 /\ call.r_fmt = FixFormat(1, 3, 0)
    /\ call.rnd = "NonSymPos_s" /\ call.sat = "Sat_s"
    /\ ret.status = "ok" /\ ret.data = 7

\* a value resized to its own format, by the caller or by ResizeAgain
ResizedToSame == Resized /\ call.r_fmt = call.a_fmt

\* C10 as stated: for every format fmt, value v of fmt, rounding mode and
\* saturation mode, resize(v, fmt, fmt, rnd, sat) returns v, and so resizing
\* a resized value again to its format r returns it unchanged.
C10_ResizeIdempotent_AnyFormat ==
    ResizedToSame => (ret.status = "ok" /\ ret.fmt = call.a_fmt /\ ret.data = call.a)

\* C10, for formats of width >= 1: resize(v, fmt, fmt, rnd, sat) returns v,
\* and resize(resize(v, a, r, rnd, sat), r, r, rnd, sat) equals
\* resize(v, a, r, rnd, sat); for a format of width 0 resize raises.
C10_ResizeIdempotent ==
    ResizedToSame =>
        IF width(call.a_fmt) >= 1
        THEN ret.status = "ok" /\ ret.fmt = call.a_fmt /\ ret.data = call.a
        ELSE ret = AssertionError

\* -8 of the wrap of 7.5 is resized again to (1,3,0) and stays -8
C10_Witness ==
    /\ Resized /\ call.op = "cl_fix_resize" /\ call.again
    /\ call.a_fmt = FixFormat(1, 3, 0) /\ call.r_fmt = FixFormat(1, 3, 0)
    /\ call.rnd = "NonSymPos_s" /\ call.sat = "None_s"
    /\ call.a = IntMul(-8, 0) /\ ret.status = "ok" /\ ret.data = IntMul(-8, 0)

---------------------------------------------------------------------------
(* Properties of the two representations *)

ComparedOps == {"round", "saturate", "resize", "add", "sub", "abs", "shift"}

\* the WideFix result stands for the float the cl_fix_* function returned
SameValue == /\ ret.narrow.status = "ok"
             /\ ret.wide.status = "ok"
             /\ to_real(ret.wide.data, ret.fmt) = ret.narrow.data

\* C11: for all formats of width <= 53 and all values, round, saturate,
\* resize, add, sub, abs and shift computed through WideFix and through the
\* float representation give identical values, for every rounding mode and
\* every saturation mode.
C11_SameInBothRepresentations ==
    (pc = "done" /\ call.op \in ComparedOps) => SameValue

\* what holds of the code: every compared operation but shift agrees, and
\* WideFix.shift returns no value
C11_SameButShift ==
    (pc = "done" /\ call.op \in ComparedOps) =>
        IF call.op = "shift"
        THEN ret.narrow.status = "ok" /\ ret.wide = AttributeError
        ELSE SameValue

---------------------------------------------------------------------------
(* Properties of the arithmetic *)

WideArith == {"WideFix.neg", "WideFix.add", "WideFix.sub", "WideFix.mult"}

ClFixArith == {"cl_fix_neg", "cl_fix_add", "cl_fix_sub", "cl_fix_mult"}

\* the exact mathematical result of a call: -x, x + y, x - y, x * y
Exact ==
    LET x == call.a * Pow2R(-call.a_fmt.F) IN
    CASE call.op \in {"WideFix.neg", "cl_fix_neg"} -> -x
      [] call.op \in {"WideFix.add", "cl_fix_add"} -> x + call.b * Pow2R(-call.b_fmt.F)
      [] call.op \in {"WideFix.sub", "cl_fix_sub"} -> x - call.b * Pow2R(-call.b_fmt.F)
      [] call.op \in {"WideFix.mult", "cl_fix_mult"} ->
             (call.a * call.b) * Pow2R(-(call.a_fmt.F + call.b_fmt.F))

\* the real number returned
Returned ==
    IF call.op \in WideArith THEN to_real(ret.data, OrDefault(call.r_fmt, call.mid_fmt))
    ELSE ret.data

\* C14: add, sub, mult and neg with a result format, a rounding mode and a
\* saturation mode return resize(e, mid_fmt, r_fmt, rnd, sat), e being the
\* exact result and mid_fmt the for_* format, in which e is representable;
\* without a result format they return e itself, also when the operands
\* differ in their fraction bits.
C14_ResizeOfExact ==
    (pc = "done" /\ call.op \in WideArith \cup ClFixArith) =>
        /\ InFormat(Exact, call.mid_fmt)
        /\ IF call.r_fmt = None THEN Returned = Exact
           ELSE Returned = cl_fix_resize(Exact, call.mid_fmt, call.r_fmt[1], call.rnd, call.sat)

\* 1.5 + 0.5 = 2.0 out of operands with different fraction bits, returned
\* exactly without a result format
C14_Witness ==
    /\ pc = "done"
    /\ call.op = "WideFix.add"
    /\ call.a_fmt = FixFormat(0, 1, 1) /\ call.a = 3
    /\ call.b_fmt = FixFormat(0, 1, 0) /\ call.b = 1
    /\ call.r_fmt = None
    /\ ret.data = 5

---------------------------------------------------------------------------
(* Properties of the comparisons *)

ComparisonOps == {"__eq__", "__ne__", "__lt__", "__le__", "__gt__", "__ge__"}

\* the comparison of two real numbers
RealCompare(op, x, y) ==
    CASE op = "__eq__" -> x = y
      [] op = "__ne__" -> x # y
      [] op = "__lt__" -> x < y
      [] op = "__le__" -> x <= y
      [] op = "__gt__" -> x > y
      [] op = "__ge__" -> x >= y

---------------------------------------------------------------------------
(* Properties of the integer conversions *)

\* number of bits of a natural number
RECURSIVE BitLength(_)
BitLength(n) == IF n = 0 THEN 0 ELSE 1 + BitLength(n \div 2)

\* min(fmt) * 2^F <= x <= max(fmt) * 2^F, decided without forming 2^(I+F)
InRawRange(x, fmt) ==
    IF x >= 0 THEN BitLength(x) <= fmt.I + fmt.F
    ELSE fmt.S = 1 /\ BitLength(-x - 1) <= fmt.I + fmt.F

AllInRawRange(bits, fmt) == \A i \in DOMAIN bits : InRawRange(bits[i], fmt)

\* the fixed-point values a result of cl_fix_from_integer denotes
Denoted(r, fmt) ==
    IF cl_fix_is_wide(fmt) THEN [i \in DOMAIN r.data |-> to_real(r.data[i], fmt)]
    ELSE r.data

\* C12: for every format, narrow or wide, and raw integers bits within the
\* range of the format, cl_fix_from_integer(bits, fmt) denotes bits * 2^-F and
\* cl_fix_to_integer of it returns bits again (stated here for the formats
\* that have at least one bit).
C12_IntegerRoundTrip ==
    (pc = "done" /\ width(call.fmt) > 0 /\ AllInRawRange(call.bits, call.fmt)) =>
        /\ call.op = "cl_fix_from_integer"
              => /\ ret.status = "ok"
                 /\ Denoted(ret, call.fmt) =
                        [i \in DOMAIN call.bits |-> call.bits[i] * Pow2R(-call.fmt.F)]
        /\ call.op = "cl_fix_to_integer"
              => /\ ret.status = "ok"
                 /\ ret.data = call.bits

\* the round trip for the narrow formats of positive width
C12_NarrowRoundTrip ==
    (pc = "done" /\ ~cl_fix_is_wide(call.fmt) /\ width(call.fmt) > 0) =>
        /\ (call.op = "cl_fix_from_integer" /\ AllInRawRange(call.bits, call.fmt))
              => /\ ret.status = "ok"
                 /\ ret.data = [i \in DOMAIN call.bits |-> call.bits[i] * Pow2R(-call.fmt.F)]
        /\ call.op = "cl_fix_to_integer"
              => ret.status = "ok" /\ ret.type = "int64" /\ ret.data = call.bits

\* what the wide branch does with in-range integers
C12_WideRoundTripFails ==
    (pc = "done" /\ call.op = "cl_fix_to_integer" /\ cl_fix_is_wide(call.fmt)) =>
        IF call.type = "int" THEN ret = AttributeError ELSE ret.type = "memoryview"

\* C17: cl_fix_from_integer(bits, fmt) raises an error and returns no value
\* whenever some element of bits is outside the raw range of fmt, for narrow
\* and for wide formats alike; it returns a value only when every element is
\* in range.
C17_FromIntegerRangeError ==
    (pc = "done" /\ call.op = "cl_fix_from_integer") =>
        /\ ~AllInRawRange(call.bits, call.fmt) => ret.status # "ok"
        /\ ret.status = "ok" => AllInRawRange(call.bits, call.fmt)

\* the range error of the narrow formats: a ValueError exactly when some
\* element is out of range (an AssertionError whatever the data when the
\* format has no bits)
C17_NarrowRangeError ==
    (pc = "done" /\ call.op = "cl_fix_from_integer" /\ ~cl_fix_is_wide(call.fmt)) =>
        IF width(call.fmt) = 0 THEN ret = AssertionError
        ELSE (ret = ValueError) <=> ~AllInRawRange(call.bits, call.fmt)

\* the wide formats return the integers unchecked
C17_WideUnchecked ==
    (pc = "done" /\ call.op = "cl_fix_from_integer" /\ cl_fix_is_wide(call.fmt)) =>
        ret.status = "ok" /\ ret.data = call.bits

---------------------------------------------------------------------------
(* Properties of the conversion from real numbers *)

FromRealOps == {"NarrowFix.from_real", "WideFix.FromFloat", "cl_fix_from_real"}

\* the multiple of 2^-n nearest to x, the upper one of two equally near
NearestUp(x, n) ==
    CHOOSE r \in {FloorTo(x, n), CeilTo(x, n)} :
        /\ 2 * AbsR(x - r) <= Pow2R(-n)
        /\ 2 * AbsR(x - r) = Pow2R(-n) => r > x

Clamp(x, lo, hi) == IF x > hi THEN hi ELSE IF x < lo THEN lo ELSE x

\* the real number a result of a conversion stands for
ConvertedReal == IF call.op = "WideFix.FromFloat" THEN to_real(ret.data, call.r_fmt) ELSE ret.data

C16_NonSaturatingRejected ==
    (pc = "done" /\ call.op \in FromRealOps /\ call.sat \in {"None_s", "Warn_s"}) =>
        ret.status \in {"NotImplementedError", "ValueError"}

\* an input that the format represents, refused in a mode without saturation
C16_Witness ==
    /\ pc = "done"
    /\ call.op \in FromRealOps
    /\ call.sat = "None_s"
    /\ InFormat(call.a, call.r_fmt)
    /\ ret.status # "ok"

---------------------------------------------------------------------------
(* Properties of the saturation warning *)

BatchOps == {"WideFix.saturate", "NarrowFix.saturate"}

\* the real numbers of the input array
InputReals == [i \in DOMAIN call.a |-> RealOf(call.op, call.a[i], call.a_fmt)]

\* the elements of the input array outside the range of r_fmt
Overflowing ==
    {i \in DOMAIN call.a : \/ InputReals[i] > max_value(call.r_fmt)
                           \/ InputReals[i] < min_value(call.r_fmt)}

\* C18: in the modes Warn_s and SatWarn_s, saturate and resize give one
\* overflow signal for each element outside the target range, and the signal
\* does not abort the batch: a result is returned for every element.
C18_SignalPerElement ==
    (pc = "done" /\ call.op \in BatchOps \cup {"en_cl_fix_pkg.cl_fix_resize"}
                 /\ call.sat \in {"Warn_s", "SatWarn_s"}) =>
        /\ ret.status = "ok"
        /\ DOMAIN ret.data = DOMAIN call.a
        /\ call.op \in BatchOps => Len(ret.warnings) = Cardinality(Overflowing)

\* what the classes do: at most one warning for the batch, and a result for
\* every element
C18_OneSignalPerBatch ==
    (pc = "done" /\ call.op \in BatchOps) =>
        /\ ret.status = "ok"
        /\ DOMAIN ret.data = DOMAIN call.a
        /\ Len(ret.warnings) = IF call.sat \in {"Warn_s", "SatWarn_s"} /\ Overflowing # {}
                               THEN 1 ELSE 0

\* what cl_fix_resize of src/python does: it raises when the rounded value
\* overflows in a warning mode
C18_PkgRaises ==
    (pc = "done" /\ call.op = "en_cl_fix_pkg.cl_fix_resize") =>
        (ret = Exception) <=>
            /\ call.sat \in {"Warn_s", "SatWarn_s"}
            /\ LET rounded == NarrowFix_round(call.a[1], call.a_fmt, call.r_fmt, call.rnd)
               IN  rounded > max_value(call.r_fmt) \/ rounded < min_value(call.r_fmt)

\* the mode without warning that a mode wraps or clamps like
Silent(sat) == IF sat \in {"None_s", "Warn_s"} THEN "None_s" ELSE "Sat_s"

\* C19: saturate with Warn_s or SatWarn_s raises the overflow signal exactly
\* when at least one element of the input, before it is wrapped or clamped,
\* is above max(r_fmt) or below min(r_fmt); None_s and Sat_s never raise it;
\* the values returned under Warn_s are those under None_s, and those under
\* SatWarn_s are those under Sat_s.
C19_SignalIffOverflow ==
    (pc = "done" /\ call.op \in BatchOps) =>
        /\ (ret.warnings # <<>>) <=> (call.sat \in {"Warn_s", "SatWarn_s"} /\ Overflowing # {})
        /\ ret.data = [i \in DOMAIN call.a |->
                         IF call.op = "WideFix.saturate"
                         THEN WideFix_saturate(call.a[i], call.r_fmt, Silent(call.sat))
                         ELSE NarrowFix_saturate(call.a[i], call.a_fmt, call.r_fmt, Silent(call.sat))]

\* an array whose second element only is below the minimum, wrapped with a warning
C19_Witness ==
    /\ pc = "done"
    /\ call.op = "WideFix.saturate"
    /\ call.sat = "Warn_s"
    /\ Len(call.a) = 2
    /\ Overflowing = {2}
    /\ call.a[2] < MinValue(call.r_fmt)
    /\ ret.warnings # <<>>
    /\ ret.data[1] = call.a[1]
    /\ ret.data[2] # call.a[2]

---------------------------------------------------------------------------
(* Properties of the constructor *)

Constructed == pc = "done" /\ call.op = "FixFormat"

\* C20 as stated: constructing (S, I, F) succeeds exactly when S is 0 or 1
\* and I + F >= 1 for S = 0, I + F >= 0 for S = 1; every other triple, the
\* unsigned ones with I + F = 0 included, is rejected.
C20_UnsignedNullRejected ==
    Constructed =>
        (ret.status = "ok" <=>
            /\ call.S \in {0, 1}
            /\ (call.S = 0 => call.I + call.F >= 1)
            /\ (call.S = 1 => call.I + call.F >= 0))

\* C20: constructing (S, I, F) succeeds exactly when S is 0 or 1 and
\* I + F >= 0, whatever S; every other triple raises AssertionError. The
\* unsigned formats without bits, I + F = 0, are accepted.
C20_ConstructedIffNonNegative ==
    Constructed =>
        /\ ret.status = "ok" <=> (call.S \in {0, 1} /\ call.I + call.F >= 0)
        /\ ret.status = "ok" => ret.fmt = FixFormat(call.S, call.I, call.F)
        /\ ret.status # "ok" => ret = AssertionError

\* the unsigned format without bits (0, 0, 0) is constructed
C20_Witness ==
    /\ Constructed
    /\ call.S = 0 /\ call.I = 0 /\ call.F = 0
    /\ ret.status = "ok"

---------------------------------------------------------------------------
(* Properties of the absolute value *)

AbsOps == {"WideFix.abs", "NarrowFix.abs", "cl_fix_abs"}

\* the real number an abs call returns
AbsReturned ==
    IF call.op = "WideFix.abs" THEN to_real(ret.data, OrDefault(call.r_fmt, call.mid_fmt))
    ELSE ret.data

\* C21: abs without a result format returns |x| for every value x of every
\* format of width >= 1, the most negative value -2^I of a signed format
\* included, which gives +2^I: the result is x or -x by the sign of x, and
\* for_abs has the bit that +2^I needs.
C21_AbsExact ==
    (pc = "done" /\ call.op \in AbsOps /\ call.r_fmt = None) =>
        /\ AbsReturned = AbsR(to_real(call.a, call.a_fmt))
        /\ InFormat(AbsReturned, for_abs(call.a_fmt))
        /\ call.mid_fmt = union(call.a_fmt, for_neg(call.a_fmt))

\* the most negative value -2 of the signed format (1, 1, 0) gives +2
C21_Witness ==
    /\ pc = "done"
    /\ call.op \in AbsOps
    /\ call.r_fmt = None
    /\ call.a_fmt = FixFormat(1, 1, 0)
    /\ call.a = MinValue(call.a_fmt)
    /\ AbsReturned = Pow2R(1)

---------------------------------------------------------------------------
(* Properties of addsub *)

AddsubOps == {"NarrowFix.addsub", "WideFix.addsub", "cl_fix_addsub"}

\* element i of add(a, b, r_fmt, rnd, sat) and of sub(a, b, r_fmt, rnd, sat)
\* in the representation of the call; the methods take for_addsub for an
\* omitted r_fmt
AddElement(i) ==
    LET x == from_integer(call.a[i], call.a_fmt)
        y == from_integer(call.b[i], call.b_fmt)
        r == <<OrDefault(call.r_fmt, call.mid_fmt)>>
    IN  CASE call.op = "NarrowFix.addsub" ->
                NarrowFix_add(x, call.a_fmt, y, call.b_fmt, r, call.rnd, call.sat)
          [] call.op = "WideFix.addsub" ->
                WideFix_add(call.a[i], call.a_fmt, call.b[i], call.b_fmt, r, call.rnd, call.sat)
          [] call.op = "cl_fix_addsub" ->
                cl_fix_add(x, call.a_fmt, y, call.b_fmt, call.r_fmt, call.rnd, call.sat)

SubElement(i) ==
    LET x == from_integer(call.a[i], call.a_fmt)
        y == from_integer(call.b[i], call.b_fmt)
        r == <<OrDefault(call.r_fmt, call.mid_fmt)>>
    IN  CASE call.op = "NarrowFix.addsub" ->
                NarrowFix_sub(x, call.a_fmt, y, call.b_fmt, r, call.rnd, call.sat)
          [] call.op = "WideFix.addsub" ->
                WideFix_sub(call.a[i], call.a_fmt, call.b[i], call.b_fmt, r, call.rnd, call.sat)
          [] call.op = "cl_fix_addsub" ->
                cl_fix_sub(x, call.a_fmt, y, call.b_fmt, call.r_fmt, call.rnd, call.sat)

Selected == [i \in DOMAIN call.add |-> IF call.add[i] THEN AddElement(i) ELSE SubElement(i)]

\* C22: addsub returns in every element i the element of add where add[i]
\* is true and the element of sub where it is false, on NarrowFix, on
\* WideFix and through cl_fix_addsub.
C22_AddsubSelects ==
    (pc = "done" /\ call.op \in AddsubOps) => ret.data = Selected

\* the select of NarrowFix.addsub and of cl_fix_addsub
C22_NarrowSelects ==
    (pc = "done" /\ call.op \in {"NarrowFix.addsub", "cl_fix_addsub"}) => ret.data = Selected

\* WideFix.addsub returns None
C22_WideReturnsNone ==
    (pc = "done" /\ call.op = "WideFix.addsub") => ret.data = None

---------------------------------------------------------------------------
(* Properties of the packing into words *)

\* the bits of the unsigned image of a value x of a format of w bits: for
\* a negative x the positions from w on are all set, so the positions
\* below w are the bits of x + 2^w
Encoded(x, w) == IF x.neg THEN {i \in x.bits : i < w} ELSE x.bits

\* ceil(w / 64)
WordsOf(w) == CHOOSE n \in 0 .. w : UINT64 * (n - 1) < w /\ w <= UINT64 * n

\* C23: unpacking the packed words of an array of values of a wide format
\* gives the array back element for element; an element is packed into
\* ceil(width / 64) words, least significant word first, a negative value
\* as value + 2^width.
C23_PackRoundTrip ==
    /\ (pc = "done" /\ call.op = "pack_unpack" /\ cl_fix_is_wide(call.fmt)) =>
            ret.status = "ok" /\ ret.data = call.data
    /\ (pc = "done" /\ call.op = "to_uint64_array" /\ cl_fix_is_wide(call.fmt)) =>
            /\ ret.status = "ok"
            /\ DOMAIN ret.data = DOMAIN call.data
            /\ \A e \in DOMAIN call.data :
                 /\ Len(ret.data[e]) = WordsOf(width(call.fmt))
                 /\ \A j \in 1 .. Len(ret.data[e]) :
                      ret.data[e][j] =
                          {i \in 0 .. (UINT64 - 1) :
                              i + UINT64 * (j - 1) \in Encoded(call.data[e], width(call.fmt))}

C23_Witness ==
    /\ pc = "done" /\ call.op = "pack_unpack"
    /\ call.fmt = FixFormat(1, -2, 66)
    /\ Len(call.data) = 2
    /\ call.data[1] = PyInt(TRUE, 64 .. (Top - 1))
    /\ call.data[2] = PyInt(FALSE, 0 .. 63)
    /\ ret.data = call.data

\* C29: to_uint64_array and from_uint64_array leave the array passed in
\* unchanged, for unsigned and for signed formats.
C29_InputUnchanged ==
    (pc = "done" /\ call.op \in {"to_uint64_array", "from_uint64_array"} /\ ret.status = "ok") =>
        ret.input = call.data

\* the array is left unchanged by from_uint64_array and, for a signed
\* format, by to_uint64_array
C29_SignedInputUnchanged ==
    (pc = "done" /\ ret.status = "ok"
     /\ \/ call.op = "from_uint64_array"
        \/ call.op = "to_uint64_array" /\ call.fmt.S = 1) =>
        ret.input = call.data

\* to_uint64_array on an unsigned format leaves 0 in every element
C29_UnsignedInputZeroed ==
    (pc = "done" /\ call.op = "to_uint64_array" /\ ret.status = "ok" /\ call.fmt.S = 0) =>
        \A e \in DOMAIN call.data : ret.input[e] = PyInt(FALSE, {})

---------------------------------------------------------------------------
(* Minimality of for_round *)

\* some value of a_fmt rounds under rnd to a value that fmt does not hold
Overflows(a_fmt, fmt, rnd) ==
    LET r_fmt == for_round(a_fmt, fmt.F, rnd) IN
    \E a \in DataOf(a_fmt) : ~InFormat(to_real(WideFix_round(a, a_fmt, r_fmt, rnd), r_fmt), fmt)

\* C24: whenever for_round(a, r, m) with one integer bit removed is still at
\* least one bit wide, some value of a rounds under m to a value outside
\* that smaller format, for every mode m.
C24_RoundMinimal ==
    (pc = "done" /\ call.op = "for_round" /\ width(Smaller(ret.fmt)) >= 1) =>
        Overflows(call.a_fmt, Smaller(ret.fmt), call.rnd)

\* the modes that round the largest value of a_fmt up when it lies halfway
\* between two multiples of the new step: the convergent modes according
\* to the parity of the multiple 2^(I + rFracBits) above it
TieUp(a_fmt, rFracBits) ==
    {"NonSymPos_s", "SymInf_s"}
    \cup (IF a_fmt.I + rFracBits >= 1 THEN {"ConvEven_s"} ELSE {})
    \cup (IF a_fmt.I + rFracBits = 0 THEN {"ConvOdd_s"} ELSE {})

\* for_round is minimal when no fraction bit is removed, under Trunc_s, when
\* two or more fraction bits are removed, and under the modes that round a
\* positive tie up
C24_MinimalUnlessTieDown ==
    (pc = "done" /\ call.op = "for_round" /\ width(Smaller(ret.fmt)) >= 1
     /\ \/ call.rFracBits >= call.a_fmt.F
        \/ call.rnd = "Trunc_s"
        \/ call.a_fmt.F - call.rFracBits >= 2
        \/ call.rnd \in TieUp(call.a_fmt, call.rFracBits)) =>
        Overflows(call.a_fmt, Smaller(ret.fmt), call.rnd)

\* with one fraction bit removed for_round is not minimal under the other
\* modes
C24_TieDownNotMinimal ==
    (pc = "done" /\ call.op = "for_round" /\ width(Smaller(ret.fmt)) >= 1
     /\ call.a_fmt.F - call.rFracBits = 1
     /\ call.rnd \notin TieUp(call.a_fmt, call.rFracBits) \cup {"Trunc_s"}) =>
        ~Overflows(call.a_fmt, Smaller(ret.fmt), call.rnd)

---------------------------------------------------------------------------
(* Properties of shift *)

ShiftOps == {"NarrowFix.shift", "WideFix.shift", "cl_fix_shift"}

\* the value element i of a shift stands for
ShiftReturned(i) ==
    IF call.op = "WideFix.shift"
    THEN to_real(ret.data[i], OrDefault(call.r_fmt, call.mid_fmt))
    ELSE ret.data[i]

\* the shift amount of element i
ShiftOf(i) == IF call.ndim = 0 THEN call.shift[1] ELSE call.shift[i]

\* resize(x * 2^n) for element i, x * 2^n held in the format of x
\* relabelled to (S, I + n, F - n)
ResizedShift(i) ==
    LET n == ShiftOf(i) IN
    NarrowFix_resize(FloatShift(to_real(call.a[i], call.a_fmt), n),
                     for_shift(call.a_fmt, n, n),
                     OrDefault(call.r_fmt, call.mid_fmt), call.rnd, call.sat)

\* C25: shift(a, n, r_fmt, rnd, sat) returns resize(x * 2^n) for every
\* value x, for a shift n that is one number and for an array of shifts per
\* element, on NarrowFix, on WideFix and through cl_fix_shift alike.
C25_ShiftIsResizeOfScaled ==
    (pc = "done" /\ call.op \in ShiftOps) =>
        /\ ret.status = "ok"
        /\ \A i \in DOMAIN call.a : ShiftReturned(i) = ResizedShift(i)

\* the shifts of NarrowFix and of cl_fix_shift return resize(x * 2^n)
C25_NarrowShiftIsResizeOfScaled ==
    (pc = "done" /\ call.op \in {"NarrowFix.shift", "cl_fix_shift"}) =>
        /\ ret.status = "ok"
        /\ \A i \in DOMAIN call.a : ShiftReturned(i) = ResizedShift(i)

\* WideFix.shift raises for every input
C25_WideShiftRaises ==
    (pc = "done" /\ call.op = "WideFix.shift") => ret.status \in {"AttributeError", "IndexError"}

---------------------------------------------------------------------------
(* Properties of the choice of representation *)

DispatchOps ==
    {"cl_fix_round", "cl_fix_saturate", "cl_fix_resize", "cl_fix_abs", "cl_fix_neg",
     "cl_fix_add", "cl_fix_sub", "cl_fix_mult", "cl_fix_addsub", "cl_fix_shift"}

\* the representation of the data of a format
Representation(fmt) == IF width(fmt) <= MAX_WIDTH THEN "float" ELSE "int"

\* an operand format or the intermediate format of the call is wide
NeedsWide ==
    \/ \E i \in DOMAIN call.fmts : width(call.fmts[i]) > MAX_WIDTH
    \/ width(IF call.op = "cl_fix_addsub" THEN call.delegate_fmt ELSE call.mid_fmt) > MAX_WIDTH

\* the returned data are in the representation of the result format; the
\* call ran on WideFix objects, all operands made WideFix, exactly when an
\* operand format or the intermediate format is wide
RepresentationByFormat ==
    /\ ret.status = "ok" => ret.data = Representation(OrDefault(call.r_fmt, call.mid_fmt))
    /\ ret.class = "WideFix" <=> NeedsWide
    /\ ret.class = "WideFix" => \A i \in DOMAIN ret.operands : ret.operands[i] = "WideFix"

\* C26: the data returned by a cl_fix_* operation are narrow exactly when
\* the result format is at most 53 bits wide and wide exactly when it is
\* wider, whatever the operand and intermediate formats; the operation runs
\* on the wide path, every operand promoted, whenever an operand format or
\* the intermediate format is wide.
C26_RepresentationByResultFormat ==
    (pc = "done" /\ call.op \in DispatchOps) => RepresentationByFormat

\* the same for every operation but cl_fix_addsub without r_fmt
C26_ByResultFormatButAddsub ==
    (pc = "done" /\ call.op \in DispatchOps
     /\ ~(call.op = "cl_fix_addsub" /\ call.r_fmt = None)) => RepresentationByFormat

\* no function hands data to the next stage in the wrong representation
C26_StagesAgree ==
    (pc = "done" /\ call.op \in DispatchOps) =>
        ret.status \in {"ok", "AttributeError"}

\* cl_fix_addsub without r_fmt returns the elements of the sum in the
\* representation of for_add and those of the difference in that of for_sub
C26_AddsubByDelegate ==
    (pc = "done" /\ call.op = "cl_fix_addsub" /\ call.r_fmt = None) =>
        ret.data = Representation(call.delegate_fmt)

\* the sum format and the difference format would be stored alike; this does
\* not hold: there are operand formats whose for_add is narrow and whose
\* for_sub is wide, and one array then holds floats and integers
C26_NoMixedAddsub ==
    (pc = "done" /\ call.op = "cl_fix_addsub" /\ call.r_fmt = None) =>
        Representation(for_add(call.fmts[1], call.fmts[2]))
            = Representation(for_sub(call.fmts[1], call.fmts[2]))
---------------------------------------------------------------------------
(* The range invariant over sequences of operations *)

\* the real number the value of a sequence stands for
ChainValue == IF ret.class = "WideFix" THEN to_real(ret.data, ret.fmt) ELSE ret.data

\* C27: after any sequence of round, saturate, resize, add, sub, mult, neg,
\* abs and shift on values representable in their formats, every produced
\* value is a multiple of 2^-F of the format it is returned with and lies
\* within the minimum and maximum of that format.
C27_RangeInvariant ==
    (pc = "done" /\ call.op = "chain" /\ ret.status = "ok") =>
        /\ InFormat(ChainValue, ret.fmt)
        /\ ret.class = "WideFix" => ret.data \in MinValue(ret.fmt) .. MaxValue(ret.fmt)

\* 1.5 wrapped into the signed one-bit format (1, 0, 0) by a saturate that
\* followed another operation: -1
C27_Witness ==
    /\ pc = "done" /\ call.op = "chain" /\ call.last = "saturate"
    /\ ret.status = "ok" /\ ret.class = "WideFix"
    /\ ret.fmt = FixFormat(1, 0, 0) /\ ret.data = -1

---------------------------------------------------------------------------
(* Closure of the format derivations *)

Derivations ==
    {"for_add", "for_sub", "for_addsub", "for_mult", "for_neg", "for_abs", "for_shift",
     "for_round", "union"}

\* fmt passes the checks of the constructor and the assertion of the
\* derivations on the width of an operand
Positive(fmt) == FixFormat_init(fmt.S, fmt.I, fmt.F) /\ width(fmt) >= 1

\* C28: for operand formats of width >= 1 every derivation returns a format
\* that the constructor accepts and that is at least one bit wide, so that
\* it can be the operand of a further derivation.
C28_Closed ==
    (pc = "done" /\ call.op \in Derivations) =>
        /\ Positive(ret.fmt)
        /\ Positive(for_neg(ret.fmt))
        /\ Positive(for_abs(ret.fmt))
        /\ Positive(for_add(ret.fmt, call.a_fmt))
        /\ Positive(for_sub(call.a_fmt, ret.fmt))
        /\ Positive(for_mult(ret.fmt, ret.fmt))
        /\ \A n \in ShiftRange : Positive(for_shift(ret.fmt, n, n))
        /\ \A r \in FracRange, rnd \in FixRound : Positive(for_round(ret.fmt, r, rnd))

\* the one-bit format (0, 1, 0) rounded to -3 fraction bits: the integer
\* bits are raised to 4 so that one bit is left
C28_Witness ==
    /\ pc = "done" /\ call.op = "for_round"
    /\ call.a_fmt = FixFormat(0, 1, 0) /\ call.rFracBits = -3 /\ call.rnd = "NonSymPos_s"
    /\ ret.fmt = FixFormat(0, 4, -3)

---------------------------------------------------------------------------
(* Properties of the warning of from_real *)

\* the half-up quantized input lies outside the range of the format, so
\* that clamping changes the result
ClampingChanges ==
    LET x == NearestUp(call.a, call.r_fmt.F)
    IN  x > max_value(call.r_fmt) \/ x < min_value(call.r_fmt)

\* C30: from_real with SatWarn_s warns if and only if the half-up quantized
\* value lies outside [min(fmt), max(fmt)], and NarrowFix and WideFix warn on
\* the same inputs.
C30_WarnsIffClamped ==
    (pc = "done" /\ call.op \in FromRealOps /\ call.sat = "SatWarn_s") =>
        /\ ret.warned <=> ClampingChanges
        /\ NarrowFix_from_real(call.a, call.r_fmt, call.sat).warned
               <=> WideFix_FromFloat(call.a, call.r_fmt, call.sat).warned

\* NarrowFix.from_real warns when the input itself lies outside the range,
\* WideFix.FromFloat when the input truncated to F fraction bits does
C30_WarnsOnInput ==
    (pc = "done" /\ call.op \in FromRealOps /\ call.sat = "SatWarn_s") =>
        IF call.op = "WideFix.FromFloat"
        THEN ret.warned <=>
                \/ FloorMul(call.a, call.r_fmt.F) > MaxValue(call.r_fmt)
                \/ FloorMul(call.a, call.r_fmt.F) < MinValue(call.r_fmt)
        ELSE ret.warned <=>
                (call.a > max_value(call.r_fmt) \/ call.a < min_value(call.r_fmt))

====
